---- MODULE Spec2Model ----
(***************************************************************************)
(* Ingestion-to-result pipeline of call-analytics: batch upload with       *)
(* validation and SHA-256 dedup (routers/upload.py, audio_validator.py),   *)
(* the in-memory FIFO queue with its single worker and the startup         *)
(* recovery pass (services/queue.py, main.py), and the checkpointed        *)
(* orchestrator (services/pipeline.py).  The Store holds only committed    *)
(* rows; a process crash loses the queue and the worker's locals.          *)
(***************************************************************************)
EXTENDS Integers, Sequences, FiniteSets, TLC

\* ------------------------------------------------------------------ bounds
\* file ids uuid4 can hand out, length the (unbounded) asyncio.Queue may
\* reach, blobs in one upload request
MaxFiles == 2
MaxQueue == 2
MaxBatch == 2
\* WebSocket clients, broadcast tasks suspended at once, and the count of
\* stale frames a client keeps (it stops counting there)
MaxClients == 2
MaxSuspended == 2
MaxStale == 2
MaxTime == 3
MaxSegments == 3
MaxWords == 1

Ids == 1..MaxFiles
NoId == 0
Clients == 1..MaxClients

\* ------------------------------------------------------------ pipeline.py
\* a table whose stage-1 checkpoint lies below the progress a stage opens with
STAGE_PROGRESS_low == [s \in 0..4 |->
    CASE s = 0 -> 0 [] s = 1 -> 3 [] s = 2 -> 70 [] s = 3 -> 90 [] OTHER -> 100]

STAGE_PROGRESS == [s \in 0..4 |->
    CASE s = 0 -> 0 [] s = 1 -> 40 [] s = 2 -> 70 [] s = 3 -> 90 [] OTHER -> 100]

\* a recovery pass that also picks up failed files
RESUMABLE_STATUSES_with_failed == {"transcribing", "diarizing", "analyzing", "failed"}

\* ---------------------------------------------------------------- queue.py
RESUMABLE_STATUSES == {"transcribing", "diarizing", "analyzing"}

\* --------------------------------------------------------------- models.py
\* A row of the files table; status "absent" stands for "no such row".
AbsentFile == [status |-> "absent", stage |-> 0, progress |-> 0,
               retry_count |-> 0, error_message |-> "", file_hash |-> "-"]

\* ------------------------------------------------------ audio_validator.py
\* A blob is described by what each check of the validator sees in it.
\* probe is what ffprobe makes of the bytes ("ok": it exits with 0 and
\* reports a duration > 0), duration where that duration lies against the
\* configured range, channels the channel count of the first audio stream
\* ffprobe lists (0: it lists none, the code's None).
Blob(h, ext, size, magic, probe, dur, ch) ==
    [hash |-> h, ext |-> ext, size |-> size, magic |-> magic,
     probe |-> probe, duration |-> dur, channels |-> ch]

\* a valid recording, and a blob whose content does not match its extension
BlobA == Blob("A", TRUE, "ok", TRUE, "ok", "ok", 1)
BlobBad == Blob("C", TRUE, "ok", FALSE, "ok", "ok", 1)
Blobs == {BlobA, BlobBad}
Hashes == {b.hash : b \in Blobs}

\* every blob the validator tells apart
AnyBlob ==
    {Blob(h, ext, size, magic, probe, dur, ch) :
        h \in Hashes, ext \in BOOLEAN, size \in {"ok", "big", "zero"},
        magic \in BOOLEAN, probe \in {"ok", "undecodable", "timeout"},
        dur \in {"ok", "short", "long"}, ch \in 0..2}

compute_sha256(blob) == blob.hash

\* ValidationResult; "none" and 0 stand for the None of an unset field
Invalid(err) == [valid |-> FALSE, error |-> err, dup_hash |-> "-", file_hash |-> "-",
                 duration_sec |-> "none", channels |-> 0]

validate_audio_file(blob, existing_hashes) ==
    IF ~blob.ext THEN Invalid("extension")
    ELSE IF blob.size = "big" THEN Invalid("size")
    ELSE IF blob.size = "zero" THEN Invalid("empty")
    ELSE IF ~blob.magic THEN Invalid("magic")
    ELSE IF blob.probe # "ok" THEN Invalid("probe")
    ELSE IF blob.duration = "short" THEN Invalid("short")
    ELSE IF blob.duration = "long" THEN Invalid("long")
    ELSE IF existing_hashes # {} /\ compute_sha256(blob) \in existing_hashes
         THEN [valid |-> FALSE, error |-> "duplicate",
               dup_hash |-> compute_sha256(blob), file_hash |-> compute_sha256(blob),
               duration_sec |-> blob.duration, channels |-> blob.channels]
    ELSE [valid |-> TRUE, error |-> "", dup_hash |-> "-",
          file_hash |-> compute_sha256(blob),
          duration_sec |-> blob.duration, channels |-> blob.channels]

\* --------------------------------------------------------------- upload.py
\* the operator_name form field: a name, and a blank one
OperatorNames == {"anna"}
FormNames == OperatorNames \cup {" "}
strip(name) == IF name = " " THEN "" ELSE name

VARIABLES
    files,      \* committed rows of the files table, by id
    tr,         \* committed transcriptions row of each file ("none" if no row)
    di,         \* committed diarizations row of each file
    an,         \* committed analyses row of each file
    queue,      \* QueueManager._queue
    pc,         \* position of the process / worker task
    cur,        \* QueueManager._current
    tres,       \* process_file local transcription_result
    dres,       \* process_file local diarization_result
    frame,      \* the frame the last step of the process handed to _broadcast, if any
    call,       \* the engine or Store call the last step of the process made, if any
    operators,  \* committed rows of the operators table: how many per name
    req,        \* an upload request suspended in "await upload.read", if any
    tasks,      \* broadcast_progress tasks created and not yet started, oldest first
    susp,       \* broadcast_progress tasks suspended in "await ws.send_text", oldest first
    clients,    \* the WebSocket clients: connection, subscription, frames received
    resp,       \* the status code of the last response of POST /upload (0: none yet)
    arg,        \* the arguments of a call of a function or method that is looked
                \* at on its own (validate_audio_file, _parse_and_validate, the
                \* methods of WebSocketManager), if any
    ret         \* what that call returned; for WebSocketManager, the object after it

vars == <<files, tr, di, an, queue, pc, cur, tres, dres, frame, call,
          operators, req, tasks, susp, clients, resp, arg, ret>>

\* the calls of the stateless functions
pureVars == <<arg, ret>>

\* what the worker never touches
ingestVars == <<operators, req, resp, pureVars>>
busVars == <<susp, clients>>

NoFrame == [file |-> NoId, type |-> "none", status |-> "none", progress |-> 0, stage |-> 0]
NoCall == [file |-> NoId, stage |-> 0, outcome |-> "none"]
NoReq == [batch |-> <<>>, name |-> "", h2f |-> <<>>, op |-> FALSE]

\* a client that is not connected; of a connected client the model keeps the
\* files it subscribed to, the snapshot _send_current_status sent it last, the
\* last frame a broadcast task sent it, and how many frames older than the
\* snapshot it has received since
ClosedClient == [state |-> "closed", topics |-> {}, snap |-> NoFrame,
                 last |-> NoFrame, stale |-> 0, term |-> {}]

NoArg == [fn |-> "none"]
NoRet == [fn |-> "none"]

\* the process before it is started, on an empty Store
Fresh ==
    /\ files = [f \in Ids |-> AbsentFile]
    /\ tr = [f \in Ids |-> "none"]
    /\ di = [f \in Ids |-> "none"]
    /\ an = [f \in Ids |-> "none"]
    /\ queue = <<>>
    /\ pc = "down"
    /\ cur = NoId
    /\ tres = "none"
    /\ dres = "none"
    /\ frame = NoFrame
    /\ call = NoCall
    /\ operators = [n \in OperatorNames |-> 0]
    /\ req = NoReq
    /\ tasks = <<>>
    /\ susp = <<>>
    /\ clients = [c \in Clients |-> ClosedClient]
    /\ resp = 0

Init == Fresh /\ arg = NoArg /\ ret = NoRet

\* ------------------------------------------------------------------ ws.py
\* broadcast_progress: the frame built for (file_id, status, progress, stage)
Frame(f, status, progress, stage) ==
    [file |-> f,
     type |-> IF status = "done" THEN "complete"
              ELSE IF status = "failed" THEN "error" ELSE "progress",
     status |-> status, progress |-> progress, stage |-> stage]

\* ------------------------------------------------------------ pipeline.py
\* a publisher that leaves the frames of done and failed out
create_task_progress_only(frm) ==
    IF frm.type # "progress" \/ \A c \in Clients : clients[c].state = "closed"
        THEN tasks ELSE Append(tasks, frm)

\* _broadcast: loop.create_task(broadcast_progress(...)).  The event loop
\* starts tasks in the order of their creation, so a task created while no
\* client is connected starts before any client can subscribe, finds no
\* subscriber and returns: it is not kept.
create_task(frm) ==
    IF \A c \in Clients : clients[c].state = "closed" THEN tasks ELSE Append(tasks, frm)

\* The engines are deterministic functions of their inputs (mock engines).
\* WhisperService.transcribe on the file's audio
Whisper == "T"

\* DiarizationService.diarize(audio_path, word_timestamps); word_timestamps
\* are those of transcription_result, or [] when it is None
Diarize(transcription_result) ==
    IF transcription_result = "none" THEN "D()" ELSE "D(T)"

\* _run_analysis: texts come from diarization_result, or from the stored
\* transcription when diarization_result is None
run_analysis(f, diarization_result) ==
    IF diarization_result # "none"
        THEN (IF diarization_result = "D(T)" THEN "A(D(T))" ELSE "A(D())")
        ELSE (IF tr[f] # "none" THEN "A(T)" ELSE "A()")

load_transcription(f) == tr[f]
load_diarization(f) == di[f]

\* set_status that forgets to write the stage column
set_status_keeps_stage(rec, status, stage, progress) ==
    [rec EXCEPT !.status = status, !.progress = progress]

\* set_status that forgets to write the status column
set_status_keeps_status(rec, status, stage, progress) ==
    [rec EXCEPT !.stage = stage, !.progress = progress]

\* _set_status: the three columns, committed together
set_status(rec, status, stage, progress) ==
    [rec EXCEPT !.status = status, !.stage = stage, !.progress = progress]

\* _fail that does not count the retry
fail_keeps_retry_count(rec, error) ==
    [rec EXCEPT !.status = "failed", !.error_message = error]

fail(rec, error) ==
    [rec EXCEPT !.status = "failed", !.error_message = error,
                !.retry_count = rec.retry_count + 1]

\* a stage-3 error handled like the fatal stages
on_analysis_error_fatal(rec) ==
    [rec EXCEPT !.status = "failed", !.error_message = "analysis",
                !.retry_count = rec.retry_count + 1]

\* what process_file does with the File when the stage-3 engine raises or
\* returns None: nothing (non-fatal)
on_analysis_error(rec) == rec

\* One step that commits set_status for the current file and broadcasts it.
Commit_set_status(status, stage, progress, nextpc) ==
    /\ files' = [files EXCEPT ![cur] = set_status(files[cur], status, stage, progress)]
    /\ frame' = Frame(cur, status, progress, stage)
    /\ tasks' = create_task(Frame(cur, status, progress, stage))
    /\ pc' = nextpc
    /\ call' = NoCall

\* One step that commits _fail for the current file, broadcasts it and ends
\* the job (process_file returns; the worker clears _current).
Commit_fail(stage, error) ==
    /\ files' = [files EXCEPT ![cur] = fail(files[cur], error)]
    /\ frame' = Frame(cur, "failed", files[cur].progress, files[cur].stage)
    /\ tasks' = create_task(Frame(cur, "failed", files[cur].progress, files[cur].stage))
    /\ call' = [file |-> cur, stage |-> stage, outcome |-> "raise"]
    /\ pc' = "idle"
    /\ cur' = NoId
    /\ tres' = "none"
    /\ dres' = "none"

\* ---------------------------------------------------------------- queue.py
\* process_queue: take the next id, make it current, enter process_file
Dequeue ==
    /\ pc = "idle"
    /\ queue # <<>>
    /\ queue' = Tail(queue)
    /\ IF files[Head(queue)].status = "absent"
         THEN pc' = "idle" /\ cur' = NoId
         ELSE pc' = "stage1" /\ cur' = Head(queue)
    /\ tres' = "none"
    /\ dres' = "none"
    /\ frame' = NoFrame /\ call' = NoCall
    /\ UNCHANGED <<files, tr, di, an>>
    /\ UNCHANGED <<tasks, ingestVars, busVars>>

\* ------------------------------------------------------------ pipeline.py
\* a check that runs stage n again for a File that has passed it
\* an orchestrator that runs every stage whatever the checkpoint says
runs_always(rec, n) == TRUE

runs_checkpointed(rec, n) == rec.stage <= n

\* "if db_file.stage < n": stage n runs
runs(rec, n) == rec.stage < n

Stage1Begin ==
    /\ pc = "stage1"
    /\ IF runs(files[cur], 1)
         THEN /\ Commit_set_status("transcribing", 1, 5, "s1_engine")
              /\ UNCHANGED tres
         ELSE /\ tres' = load_transcription(cur)
              /\ pc' = "stage2"
              /\ frame' = NoFrame /\ call' = NoCall
              /\ UNCHANGED <<files, tasks>>
    /\ UNCHANGED <<tr, di, an, queue, cur, dres>>
    /\ UNCHANGED <<ingestVars, busVars>>

Stage1Ok ==
    /\ pc = "s1_engine"
    /\ tres' = Whisper
    /\ tr' = [tr EXCEPT ![cur] = Whisper]
    /\ call' = [file |-> cur, stage |-> 1, outcome |-> "ok"]
    /\ pc' = "s1_saved"
    /\ frame' = NoFrame
    /\ UNCHANGED <<files, di, an, queue, cur, dres>>
    /\ tasks = <<>>
    /\ UNCHANGED <<tasks, ingestVars, busVars>>

Stage1Raise ==
    /\ pc = "s1_engine"
    /\ Commit_fail(1, "transcription")
    /\ UNCHANGED <<tr, di, an, queue>>
    /\ tasks = <<>>
    /\ UNCHANGED <<ingestVars, busVars>>

Stage1End ==
    /\ pc = "s1_saved"
    /\ Commit_set_status("transcribing", 1, STAGE_PROGRESS[1], "stage2")
    /\ UNCHANGED <<tr, di, an, queue, cur, tres, dres>>
    /\ UNCHANGED <<ingestVars, busVars>>

Stage2Begin ==
    /\ pc = "stage2"
    /\ IF runs(files[cur], 2)
         THEN /\ Commit_set_status("diarizing", 2, STAGE_PROGRESS[1] + 5, "s2_engine")
              /\ UNCHANGED dres
         ELSE /\ dres' = load_diarization(cur)
              /\ pc' = "stage3"
              /\ frame' = NoFrame /\ call' = NoCall
              /\ UNCHANGED <<files, tasks>>
    /\ UNCHANGED <<tr, di, an, queue, cur, tres>>
    /\ UNCHANGED <<ingestVars, busVars>>

Stage2Ok ==
    /\ pc = "s2_engine"
    /\ dres' = Diarize(tres)
    /\ di' = [di EXCEPT ![cur] = Diarize(tres)]
    /\ call' = [file |-> cur, stage |-> 2, outcome |-> "ok"]
    /\ pc' = "s2_saved"
    /\ frame' = NoFrame
    /\ UNCHANGED <<files, tr, an, queue, cur, tres>>
    /\ tasks = <<>>
    /\ UNCHANGED <<tasks, ingestVars, busVars>>

Stage2Raise ==
    /\ pc = "s2_engine"
    /\ Commit_fail(2, "diarization")
    /\ UNCHANGED <<tr, di, an, queue>>
    /\ tasks = <<>>
    /\ UNCHANGED <<ingestVars, busVars>>

Stage2End ==
    /\ pc = "s2_saved"
    /\ Commit_set_status("diarizing", 2, STAGE_PROGRESS[2], "stage3")
    /\ UNCHANGED <<tr, di, an, queue, cur, tres, dres>>
    /\ UNCHANGED <<ingestVars, busVars>>

Stage3Begin ==
    /\ pc = "stage3"
    /\ IF runs(files[cur], 3)
         THEN Commit_set_status("analyzing", 3, STAGE_PROGRESS[2] + 5, "s3_engine")
         ELSE /\ pc' = "finalise"
              /\ frame' = NoFrame /\ call' = NoCall
              /\ UNCHANGED <<files, tasks>>
    /\ UNCHANGED <<tr, di, an, queue, cur, tres, dres>>
    /\ UNCHANGED <<ingestVars, busVars>>

Stage3Ok ==
    /\ pc = "s3_engine"
    /\ an' = [an EXCEPT ![cur] = run_analysis(cur, dres)]
    /\ call' = [file |-> cur, stage |-> 3, outcome |-> "ok"]
    /\ pc' = "finalise"
    /\ frame' = NoFrame
    /\ UNCHANGED <<files, tr, di, queue, cur, tres, dres>>
    /\ tasks = <<>>
    /\ UNCHANGED <<tasks, ingestVars, busVars>>

\* the scoring engine returns None (unavailable) or raises
Stage3Unavailable ==
    /\ pc = "s3_engine"
    /\ \E o \in {"unavailable", "raise"} :
          call' = [file |-> cur, stage |-> 3, outcome |-> o]
    /\ files' = [files EXCEPT ![cur] = on_analysis_error(files[cur])]
    /\ pc' = "finalise"
    /\ frame' = NoFrame
    /\ UNCHANGED <<tr, di, an, queue, cur, tres, dres>>
    /\ tasks = <<>>
    /\ UNCHANGED <<tasks, ingestVars, busVars>>

\* Stage 4, then process_file returns and the worker clears _current
Finalise ==
    /\ pc = "finalise"
    /\ files' = [files EXCEPT ![cur] = set_status(files[cur], "done", 4, STAGE_PROGRESS[4])]
    /\ frame' = Frame(cur, "done", STAGE_PROGRESS[4], 4)
    /\ tasks' = create_task(Frame(cur, "done", STAGE_PROGRESS[4], 4))
    /\ pc' = "idle"
    /\ cur' = NoId
    /\ tres' = "none"
    /\ dres' = "none"
    /\ call' = NoCall
    /\ UNCHANGED <<tr, di, an, queue>>
    /\ UNCHANGED <<ingestVars, busVars>>

\* ---------------------------------------------------------------- queue.py
Perms(S) ==
    {s \in [1..Cardinality(S) -> S] : \A i, j \in 1..Cardinality(S) : i # j => s[i] # s[j]}

Stuck == {f \in Ids : files[f].status \in RESUMABLE_STATUSES}

\* a recovery pass that restarts the file from stage 0
requeued_from_scratch(rec) == [rec EXCEPT !.status = "queued", !.stage = 0]

\* the row recover_interrupted writes for a stuck file
requeued(rec) == [rec EXCEPT !.status = "queued"]

\* main.py lifespan startup: recover_interrupted on a fresh (empty) queue in
\* the row order of the query, then the worker task is created.
recover_interrupted ==
    /\ pc = "down"
    /\ files' = [f \in Ids |-> IF f \in Stuck THEN requeued(files[f]) ELSE files[f]]
    /\ \E order \in Perms(Stuck) : queue' = order
    /\ pc' = "idle"
    /\ frame' = NoFrame /\ call' = NoCall
    /\ UNCHANGED <<tr, di, an, cur, tres, dres>>
    /\ UNCHANGED <<tasks, ingestVars, busVars>>

\* a worker that ends its loop when process_file raises
worker_after_error_terminates == "stopped"

\* process_queue 106-111: where the worker stands after process_file raised
\* ("except Exception" logs, "finally" clears _current, the loop goes on)
worker_after_error == "idle"

\* process_file raises: a Store call outside its try blocks fails (db.get,
\* the _set_status that opens a stage, _load_*, the last _set_status), or
\* _fail itself fails inside a handler.  Stage 3 catches everything.  The
\* session is closed, so nothing uncommitted is written, and no frame is
\* published.
Unhandled ==
    /\ pc \in {"stage1", "s1_engine", "s1_saved", "stage2", "s2_engine", "s2_saved",
               "stage3", "finalise"}
    /\ pc \in {"s1_engine", "s2_engine"} => tasks = <<>>
    /\ pc' = worker_after_error
    /\ cur' = NoId
    /\ tres' = "none"
    /\ dres' = "none"
    /\ frame' = NoFrame
    /\ call' = [file |-> cur, stage |-> 0, outcome |-> "unhandled"]
    /\ UNCHANGED <<files, tr, di, an, queue, tasks, ingestVars, busVars>>

\* ------------------------------------------------------------------ ws.py
\* The event loop runs one task at a time: a handler or a broadcast task runs
\* only while the worker is suspended (queue wait or engine await).
WorkerSuspended == pc \in {"idle", "s1_engine", "s2_engine", "s3_engine", "stopped"}

\* (stage, progress) of frame x is before (stage, progress) of frame y
Older(x, y) == x.stage < y.stage \/ (x.stage = y.stage /\ x.progress < y.progress)

\* websocket_endpoint: accept and ws_manager.connect
Connect(c) ==
    /\ WorkerSuspended /\ pc # "stopped"
    /\ clients[c].state = "closed"
    /\ clients' = [clients EXCEPT ![c] = [ClosedClient EXCEPT !.state = "open"]]
    /\ UNCHANGED <<files, tr, di, an, queue, pc, cur, tres, dres, frame, call,
                   ingestVars, tasks, susp>>

\* the message {"file_id": f} of client c: ws_manager.subscribe, then
\* _send_current_status reads the row and writes the snapshot to the socket.
\* The client may send the message again, for the same file or for another
\* one; for an id that has no File it stays subscribed and gets "File not
\* found" in place of a snapshot.
Subscribe(c, f) ==
    /\ WorkerSuspended /\ pc # "stopped"
    /\ clients[c].state # "closed"
    /\ clients' = [clients EXCEPT ![c] =
          IF files[f].status = "absent"
            THEN [clients[c] EXCEPT !.state = "subscribed", !.topics = @ \cup {f}]
            ELSE [state |-> "subscribed", topics |-> clients[c].topics \cup {f},
                  snap |-> Frame(f, files[f].status, files[f].progress, files[f].stage),
                  last |-> clients[c].last, stale |-> 0,
                  term |-> IF files[f].status \in {"done", "failed"}
                             THEN clients[c].term \cup {f} ELSE clients[c].term]]
    /\ UNCHANGED <<files, tr, di, an, queue, pc, cur, tres, dres, frame, call,
                   ingestVars, tasks, susp>>

\* a client that follows one file, one whose id an upload returned
SubscribeOne(c, f) ==
    /\ files[f].status # "absent"
    /\ clients[c].topics \subseteq {f}
    /\ Subscribe(c, f)

\* a client that subscribes as soon as it knows the id: before the worker
\* takes the File, or before the File exists
SubscribeEarly(c, f) ==
    /\ files[f].status \in {"absent", "queued"}
    /\ Subscribe(c, f)

\* a manager that takes a failed socket out of one of its topics only
disconnect_one_topic(cl) ==
    IF cl.topics = {} THEN cl
    ELSE [cl EXCEPT !.topics = @ \ {CHOOSE f \in cl.topics : \A g \in cl.topics : f <= g}]

\* ws_manager.disconnect(ws) called by a broadcast task: the socket leaves
\* every topic and _ws_files; its handler still waits in receive_text, so the
\* connection stands as after connect
disconnect(cl) ==
    IF cl.state = "closed" THEN cl ELSE [ClosedClient EXCEPT !.state = "open"]

\* the connection of client c ends: ws_manager.disconnect.  A task that
\* holds the socket in its copy of the subscribers gets an exception from
\* send_text and goes on with its walk: the socket leaves its walk here.
Disconnect(c) ==
    /\ WorkerSuspended
    /\ clients[c].state # "closed"
    /\ clients' = [clients EXCEPT ![c] = ClosedClient]
    /\ LET cut == [i \in DOMAIN susp |->
                     [susp[i] EXCEPT !.todo = SelectSeq(@, LAMBDA x : x # c),
                                     !.dead = @ \ {c}]]
       IN susp' = SelectSeq(cut, LAMBDA t : t.todo # <<>> \/ t.dead # {})
    /\ UNCHANGED <<files, tr, di, an, queue, pc, cur, tres, dres, frame, call,
                   ingestVars, tasks>>

\* ws.send_text(data) of a broadcast task reaches client c
received(cl, frm) ==
    [cl EXCEPT !.last = frm,
               !.stale = IF Older(frm, cl.snap) /\ cl.stale < MaxStale THEN @ + 1 ELSE @,
               !.term = IF frm.type \in {"complete", "error"} THEN @ \cup {frm.file} ELSE @]

\* what "await ws.send_text(data)" can do: return, or raise
SendOutcomes == {"sent", "failed"}

\* the task after it wrote (or failed to write) to the socket at the head of
\* its walk
after_send(t, o) ==
    [t EXCEPT !.waiting = Head(t.todo), !.todo = Tail(t.todo),
              !.dead = IF o = "sent" THEN @ ELSE @ \cup {Head(t.todo)}]

\* a task whose walk is over and whose list "dead" is empty has nothing left
\* to do
Finished(t) == t.todo = <<>> /\ t.dead = {}

\* broadcast_progress starts (the oldest task first): it copies the set of
\* subscribers of the file, walks it in the order the set yields and writes
\* the frame to the first socket; "await ws.send_text" may suspend it there.
start_task(outcomes) ==
    /\ WorkerSuspended
    /\ tasks # <<>>
    /\ tasks' = Tail(tasks)
    /\ LET frm == Head(tasks)
           subscribers == {c \in Clients : frm.file \in clients[c].topics}
       IN IF subscribers = {}
            THEN UNCHANGED <<susp, clients>>
            ELSE \E order \in Perms(subscribers), o \in outcomes :
                   LET t == after_send([frame |-> frm, waiting |-> order[1],
                                        todo |-> order, dead |-> {}], o)
                   IN /\ clients' = IF o = "sent"
                                       THEN [clients EXCEPT ![order[1]] = received(@, frm)]
                                       ELSE clients
                      /\ IF Finished(t)
                           THEN UNCHANGED susp
                           ELSE /\ Len(susp) < MaxSuspended
                                /\ susp' = Append(susp, t)
    /\ UNCHANGED <<files, tr, di, an, queue, pc, cur, tres, dres, frame, call, ingestVars>>

\* a suspended broadcast task goes on: its send returned or raised, it
\* writes the frame to the next socket of its walk, or, the walk over, calls
\* disconnect for the sockets on its list "dead" and ends.  Tasks waiting on
\* the same socket go on in the order they came.
resume_task(i, outcomes) ==
    /\ WorkerSuspended
    /\ i \in DOMAIN susp
    /\ \A j \in 1..(i - 1) : susp[j].waiting # susp[i].waiting
    /\ LET t == susp[i]
           others == SubSeq(susp, 1, i - 1) \o SubSeq(susp, i + 1, Len(susp))
       IN IF t.todo = <<>>
            THEN /\ clients' = [c \in Clients |->
                                  IF c \in t.dead THEN disconnect(clients[c]) ELSE clients[c]]
                 /\ susp' = others
            ELSE \E o \in outcomes :
                   /\ clients' = IF o = "sent"
                                   THEN [clients EXCEPT ![Head(t.todo)] = received(@, t.frame)]
                                   ELSE clients
                   /\ susp' = IF Finished(after_send(t, o))
                                THEN others
                                ELSE [susp EXCEPT ![i] = after_send(t, o)]
    /\ UNCHANGED <<files, tr, di, an, queue, pc, cur, tres, dres, frame, call,
                   ingestVars, tasks>>

\* clients whose connections hold: every send returns
TaskStart == start_task({"sent"})
TaskResume(i) == resume_task(i, {"sent"})

\* connections that may break under a send
TaskStartLossy == start_task(SendOutcomes)
TaskResumeLossy(i) == resume_task(i, SendOutcomes)

\* ---------------------------------------------------------------- main.py
\* lifespan shutdown: q.stop() and _worker_task.cancel().  The worker is
\* suspended in the queue wait or in an engine await; CancelledError is raised
\* there, passes every "except Exception" (it is a BaseException), runs the
\* "finally" of process_queue and ends the loop.  The engine's thread is not
\* stopped, its result is dropped.
Shutdown ==
    /\ pc \in {"idle", "s1_engine", "s2_engine", "s3_engine"}
    /\ pc' = "stopped"
    /\ cur' = NoId
    /\ tres' = "none"
    /\ dres' = "none"
    /\ frame' = NoFrame /\ call' = NoCall
    /\ UNCHANGED <<files, tr, di, an, queue, tasks, ingestVars, busVars>>

\* ---------------------------------------------------------------- queue.py
\* The process dies: the in-memory queue, _current, the locals of the job in
\* progress, the requests in flight, the connections and the broadcast tasks
\* are lost; an open transaction is rolled back.
Crash ==
    /\ pc # "down"
    /\ pc' = "down"
    /\ queue' = <<>>
    /\ cur' = NoId
    /\ tres' = "none"
    /\ dres' = "none"
    /\ frame' = NoFrame /\ call' = NoCall
    /\ req' = NoReq
    /\ tasks' = <<>>
    /\ susp' = <<>>
    /\ clients' = [c \in Clients |-> ClosedClient]
    /\ resp' = 0
    /\ UNCHANGED <<files, tr, di, an, operators, pureVars>>

\* --------------------------------------------------------------- upload.py
max_batch_size == 20

Batches == UNION {[1..n -> Blobs] : n \in 1..MaxBatch}

NonFailed(h) == {f \in Ids : files[f].status \notin {"absent", "failed"} /\ files[f].file_hash = h}

\* hash_to_file_id as the dict comprehension over the un-ordered query leaves
\* it: for each hash one of its non-failed files (the last row wins)
RECURSIVE MapsOver(_)
MapsOver(H) ==
    IF H = {} THEN {<<>>}
    ELSE LET h == CHOOSE x \in H : TRUE
             ids == IF NonFailed(h) = {} THEN {NoId} ELSE NonFailed(h)
         IN {(h :> f) @@ m : f \in ids, m \in MapsOver(H \ {h})}

HashMaps == MapsOver(Hashes)

FreeIds(taken) == {f \in Ids : files[f].status = "absent" /\ f \notin taken}

\* uuid4(): an id no row has
NewId(taken) == CHOOSE f \in FreeIds(taken) : \A g \in FreeIds(taken) : f <= g

\* an ingestion that marks its rows as past stage 1
NewFile_stage1(h) == [status |-> "queued", stage |-> 1, progress |-> 0,
                      retry_count |-> 0, error_message |-> "", file_hash |-> h]

\* FileModel(..., status="queued", stage=0)
NewFile(h) == [status |-> "queued", stage |-> 0, progress |-> 0,
               retry_count |-> 0, error_message |-> "", file_hash |-> h]

\* a handler that keeps the blob it has just rejected
on_invalid_keeps_blob(st, blob) ==
    IF FreeIds(st.added) = {} THEN [st EXCEPT !.errors = @ + 1]
    ELSE LET id == NewId(st.added)
         IN [st EXCEPT !.errors = @ + 1,
                       !.added = @ \cup {id},
                       !.hash_of[id] = compute_sha256(blob),
                       !.accepted = Append(@, id)]

\* validation_errors.append(...); continue: the blob is dropped before
\* _save_file_to_disk and db.add
on_invalid(st, blob) == [st EXCEPT !.errors = @ + 1]

\* the loop "for upload in files" from blob i on; st carries hash_to_file_id,
\* accepted_file_ids, the number of validation_errors and the rows added to
\* the session (ok is FALSE once the id space of the model is used up)
RECURSIVE UploadLoop(_, _, _)
UploadLoop(batch, i, st) ==
    IF i > Len(batch) \/ ~st.ok THEN st
    ELSE LET blob == batch[i]
             result == validate_audio_file(blob, {h \in Hashes : st.h2f[h] # NoId})
         IN IF blob.size = "big"
              THEN UploadLoop(batch, i + 1, [st EXCEPT !.errors = @ + 1])
            ELSE IF ~result.valid
              THEN IF result.error = "duplicate" /\ st.h2f[result.dup_hash] # NoId
                     THEN UploadLoop(batch, i + 1,
                            [st EXCEPT !.accepted = Append(@, st.h2f[result.dup_hash])])
                     ELSE UploadLoop(batch, i + 1, on_invalid(st, blob))
            ELSE IF FreeIds(st.added) = {}
              THEN [st EXCEPT !.ok = FALSE]
            ELSE LET id == NewId(st.added)
                 IN UploadLoop(batch, i + 1,
                      [st EXCEPT !.h2f[result.file_hash] = id,
                                 !.added = @ \cup {id},
                                 !.hash_of[id] = result.file_hash,
                                 !.accepted = Append(@, id)])

UploadResult(batch, m) ==
    UploadLoop(batch, 1,
        [ok |-> TRUE, h2f |-> m, accepted |-> <<>>, errors |-> 0,
         added |-> {}, hash_of |-> [f \in Ids |-> "-"]])

\* the rows of the files table after db.commit()
Committed(st) ==
    [f \in Ids |-> IF f \in st.added THEN NewFile(st.hash_of[f]) ELSE files[f]]

\* an enqueue loop that also hands over the id it would give the next row
ToEnqueue_and_next(st) ==
    st.accepted \o (IF FreeIds(st.added) = {} THEN <<>> ELSE <<NewId(st.added)>>)

\* the ids the enqueue loop hands to enqueue_sync, in order
ToEnqueue(st) == SelectSeq(st.accepted, LAMBDA f : Committed(st)[f].status = "queued")

\* the response: file_ids in acceptance order, or 400 when every blob
\* failed validation (the session is rolled back)
Response(st) ==
    IF st.errors > 0 /\ st.accepted = <<>>
        THEN [code |-> 400, file_ids |-> <<>>]
        ELSE [code |-> 200, file_ids |-> st.accepted]

\* lines 53-75: the checks on the form, the dedup query and the operator
\* lookup; what the request holds when it reaches "await upload.read"
Snapshot(batch, name, m) ==
    [batch |-> batch, name |-> strip(name), h2f |-> m, op |-> operators[strip(name)] > 0]

\* a rollback that leaves the flushed Operator row behind
rollback_keeps_operator(r) ==
    [operators EXCEPT ![r.name] = IF r.op THEN @ ELSE @ + 1]

\* db.rollback(): the operators table after it (the Operator row that
\* _get_or_create_operator flushed for r is dropped with the File rows)
rollback(r) == operators

\* a queue that hands out the newest id first
put_nowait_front(q, f) == <<f>> \o q

\* asyncio.Queue.put_nowait, which both enqueue (await put) and enqueue_sync
\* (call_soon_threadsafe(put_nowait)) come to; the callbacks of the event
\* loop run in the order of the enqueue_sync calls
put_nowait(q, f) == Append(q, f)

\* the enqueue loop: enqueue_sync for each id of ids, in order
RECURSIVE enqueue_sync(_, _)
enqueue_sync(q, ids) ==
    IF ids = <<>> THEN q ELSE enqueue_sync(put_nowait(q, Head(ids)), Tail(ids))

\* lines 77-147 for a request r: the loop over the blobs, then rollback and
\* 400, or commit (File rows and the Operator row, if r created one) and the
\* enqueue loop
Finish(r) ==
    LET st == UploadResult(r.batch, r.h2f)
    IN /\ st.ok
       /\ resp' = Response(st).code
       /\ IF Response(st).code = 400
            THEN /\ operators' = rollback(r)
                 /\ UNCHANGED <<files, queue>>
            ELSE /\ Len(queue) + Len(ToEnqueue(st)) <= MaxQueue
                 /\ files' = Committed(st)
                 /\ queue' = enqueue_sync(queue, ToEnqueue(st))
                 /\ operators' = [operators EXCEPT ![r.name] = IF r.op THEN @ ELSE @ + 1]

\* POST /upload served without another request or the worker in between
serve_upload(batch, name) ==
    /\ pc \notin {"down", "stopped"}
    /\ IF strip(name) = "" \/ Len(batch) > max_batch_size
         THEN /\ resp' = (IF strip(name) = "" THEN 422 ELSE 400)
              /\ UNCHANGED <<files, queue, operators>>
         ELSE \E m \in HashMaps : Finish(Snapshot(batch, name, m))
    /\ UNCHANGED <<tr, di, an, pc, cur, tres, dres, frame, call, req, tasks, busVars>>

upload_files(batch, name) == serve_upload(batch, name) /\ UNCHANGED pureVars

\* the same request, with the batch it carried kept for reference
UploadCall(batch) == [fn |-> "upload_files", batch |-> batch]

upload_files_of(batch) ==
    /\ \E name \in OperatorNames : serve_upload(batch, name)
    /\ arg' = UploadCall(batch)
    /\ UNCHANGED ret

UploadOf == \E batch \in Batches : upload_files_of(batch)

\* any batch, invalid blobs included
Upload == \E batch \in Batches, name \in FormNames : upload_files(batch, name)

\* a batch of valid recordings; a batch with invalid blobs changes the Store
\* and the queue exactly as the batch of its valid blobs does (or not at all)
Recordings == {b \in Batches : \A i \in DOMAIN b : validate_audio_file(b[i], {}).valid}

UploadRecordings ==
    \E batch \in Recordings, name \in OperatorNames : upload_files(batch, name)

\* POST /upload of recordings up to its first suspension, while no other
\* request is held
UploadBegin ==
    /\ pc \notin {"down", "stopped"}
    /\ req = NoReq
    /\ \E batch \in Recordings, name \in OperatorNames, m \in HashMaps :
          /\ Len(batch) <= max_batch_size
          /\ req' = Snapshot(batch, name, m)
    /\ UNCHANGED <<files, tr, di, an, queue, pc, cur, tres, dres, frame, call,
                   operators, resp, tasks, busVars, pureVars>>

\* the suspended request runs to its response
UploadEnd ==
    /\ pc \notin {"down", "stopped"}
    /\ req # NoReq
    /\ Finish(req)
    /\ req' = NoReq
    /\ UNCHANGED <<tr, di, an, pc, cur, tres, dres, frame, call, tasks, busVars, pureVars>>

\* ------------------------------------------------------ audio_validator.py
\* the calls of validate_audio_file: a blob and the hashes the caller knows
ValidatorCalls ==
    {[fn |-> "validate_audio_file", blob |-> b, existing_hashes |-> H] :
        b \in AnyBlob, H \in SUBSET Hashes}

Validate ==
    /\ arg \in ValidatorCalls
    /\ ret = NoRet
    /\ ret' = [fn |-> arg.fn, result |-> validate_audio_file(arg.blob, arg.existing_hashes)]
    /\ UNCHANGED <<files, tr, di, an, queue, pc, cur, tres, dres, frame, call,
                   operators, req, resp, tasks, busVars, arg>>

\* ---------------------------------------------------------- llm_service.py
\* The numbers of an engine reply are written in tenths (959 is 95.9), the
\* scores of an AnalysisResult are integers.
\* int(x) of a JSON number: the fraction is cut off, towards zero
int(x) == IF x >= 0 THEN x \div 10 ELSE -((-x) \div 10)

clamp(v) == IF v < 0 THEN 0 ELSE IF v > 100 THEN 100 ELSE v

abs(v) == IF v < 0 THEN -v ELSE v

\* standard * 0.4 + loyalty * 0.3 + kindness * 0.3, in tenths
weighted(scores) == 4 * scores.standard + 3 * scores.loyalty + 3 * scores.kindness

\* round(x) of the float sum x, given in tenths: the nearest integer; when
\* the exact sum ends in .5 the float sum lies at it or a rounding error off
\* it, and round goes down (up = FALSE) or up
round(tenths, up) ==
    IF tenths % 10 < 5 THEN tenths \div 10
    ELSE IF tenths % 10 > 5 THEN tenths \div 10 + 1
    ELSE IF up THEN tenths \div 10 + 1 ELSE tenths \div 10

None == [ok |-> FALSE]

\* what the text of a reply can be: no JSON, JSON that is no object, an
\* object that lacks a required key, an object with a score that is no
\* number, and an object with four numbers and a summary
ReplyNumbers == {-35, 0, 500, 959, 960, 1000, 1040}
Summaries == {"good call", " ", ""}

Replies ==
    {[kind |-> k] : k \in {"invalid_json", "not_object", "missing_field", "non_numeric"}}
    \cup {[kind |-> "object", standard |-> a, loyalty |-> b, kindness |-> c,
            overall |-> d, summary |-> t] :
             a \in ReplyNumbers, b \in ReplyNumbers, c \in ReplyNumbers,
             d \in ReplyNumbers, t \in Summaries}

\* _parse_and_validate(raw); up is the way round() goes on a tie
parse_and_validate(raw, up) ==
    IF raw.kind # "object" THEN None
    ELSE LET scores == [standard |-> clamp(int(raw.standard)),
                        loyalty |-> clamp(int(raw.loyalty)),
                        kindness |-> clamp(int(raw.kindness)),
                        overall |-> clamp(int(raw.overall))]
             clamped == \E k \in {"standard", "loyalty", "kindness", "overall"} :
                            scores[k] # int(raw[k])
             summary == strip(raw.summary)
             expected_overall == round(weighted(scores), up)
         IN [ok |-> TRUE,
             standard |-> scores.standard,
             loyalty |-> scores.loyalty,
             kindness |-> scores.kindness,
             overall |-> IF abs(scores.overall - expected_overall) > 5
                           THEN expected_overall ELSE scores.overall,
             summary |-> summary,
             partial |-> clamped \/ summary = ""]

MAX_RETRIES == 3
RETRY_BASE_DELAY == 2

RECURSIVE pow2(_)
pow2(n) == IF n = 0 THEN 1 ELSE 2 * pow2(n - 1)

\* what one call of the engine can do: raise, or return a text
GoodReply == [kind |-> "object", standard |-> 500, loyalty |-> 500, kindness |-> 500,
              overall |-> 500, summary |-> "good call"]
Attempts ==
    {[kind |-> k] : k \in {"raise", "invalid_json", "missing_field"}} \cup {GoodReply}
Scripts == [1..MAX_RETRIES -> Attempts]

\* a service that never changes its prompt
sys_prompt_normal(strict, attempt) == "SYSTEM_PROMPT"

\* STRICT_SYSTEM_PROMPT if (strict or attempt > 1) else SYSTEM_PROMPT
sys_prompt(strict, attempt) ==
    IF strict \/ attempt > 1 THEN "STRICT_SYSTEM_PROMPT" ELSE "SYSTEM_PROMPT"

\* the loop "for attempt in range(1, MAX_RETRIES + 1)" from attempt on; the
\* engine does script[i] on its i-th call; st keeps the prompts of the calls
\* made and the delays slept
RECURSIVE call_with_retry(_, _, _, _, _)
call_with_retry(script, strict, up, attempt, st) ==
    IF attempt > MAX_RETRIES THEN [st EXCEPT !.result = None]
    ELSE LET called == [st EXCEPT !.prompts = Append(@, sys_prompt(strict, attempt))]
         IN IF script[attempt].kind = "raise"
              THEN call_with_retry(script, strict, up, attempt + 1,
                     IF attempt < MAX_RETRIES
                       THEN [called EXCEPT !.delays =
                               Append(@, RETRY_BASE_DELAY * pow2(attempt - 1))]
                       ELSE called)
            ELSE IF parse_and_validate(script[attempt], up) # None
              THEN [called EXCEPT !.result = parse_and_validate(script[attempt], up)]
            ELSE call_with_retry(script, strict, up, attempt + 1, called)

\* LLMService.analyze: no client without the credential, nothing to score in
\* an empty text
analyze(credential, operator_text, script, up) ==
    IF ~credential \/ strip(operator_text) = ""
        THEN [result |-> None, prompts |-> <<>>, delays |-> <<>>]
        ELSE call_with_retry(script, FALSE, up, 1,
                [result |-> None, prompts |-> <<>>, delays |-> <<>>])

AnalyzeCalls ==
    {[fn |-> "analyze", credential |-> k, operator_text |-> t, script |-> sc] :
        k \in BOOLEAN, t \in {"anna", " "}, sc \in Scripts}

Analyze ==
    /\ arg \in AnalyzeCalls
    /\ ret = NoRet
    /\ \E up \in BOOLEAN :
          ret' = [fn |-> arg.fn,
                  out |-> analyze(arg.credential, arg.operator_text, arg.script, up)]
    /\ UNCHANGED <<files, tr, di, an, queue, pc, cur, tres, dres, frame, call,
                   operators, req, resp, tasks, busVars, arg>>

\* ------------------------------------------------------------ pipeline.py
\* _save_analysis: the analyses row written for an AnalysisResult
save_analysis(result) ==
    [standard |-> result.standard, loyalty |-> result.loyalty,
     kindness |-> result.kindness, overall |-> result.overall,
     summary |-> result.summary]

\* byte strings are sequences of byte values
b_ftyp == <<102, 116, 121, 112>>
b_M4A == <<77, 52, 65>>

MAGIC_SIGNATURES ==
    [ext \in {".mp3", ".wav", ".ogg", ".flac", ".m4a", ".webm"} |->
        CASE ext = ".mp3" -> <<(<<255, 251>>), <<255, 243>>, <<255, 242>>, <<73, 68, 51>>>>
          [] ext = ".wav" -> <<(<<82, 73, 70, 70>>)>>
          [] ext = ".ogg" -> <<(<<79, 103, 103, 83>>)>>
          [] ext = ".flac" -> <<(<<102, 76, 97, 67>>)>>
          [] ext = ".m4a" -> <<(<<0, 0, 0, 24>> \o b_ftyp \o b_M4A),
                               <<0, 0, 0, 32>> \o b_ftyp \o b_M4A,
                               <<0, 0, 0, 28>> \o b_ftyp \o b_M4A,
                               b_ftyp>>
          [] ext = ".webm" -> <<(<<26, 69, 223, 163>>)>>]

\* content[a:b]
slice(content, a, b) ==
    SubSeq(content, a + 1, IF b < Len(content) THEN b ELSE Len(content))

\* the loop "for sig in signatures" from signature i on
RECURSIVE check_sigs(_, _, _, _)
check_sigs(content, ext, signatures, i) ==
    IF i > Len(signatures) THEN FALSE
    ELSE IF ext = ".m4a" /\ slice(content, 4, 8) = b_ftyp THEN TRUE
    ELSE IF slice(content, 0, Len(signatures[i])) = signatures[i] THEN TRUE
    ELSE check_sigs(content, ext, signatures, i + 1)

_check_magic_bytes(content, ext) ==
    LET signatures == IF ext \in DOMAIN MAGIC_SIGNATURES THEN MAGIC_SIGNATURES[ext] ELSE <<>>
    IN IF signatures = <<>> THEN TRUE
       ELSE check_sigs(content, ext, signatures, 1)

AllSignatures ==
    UNION {{MAGIC_SIGNATURES[e][i] : i \in DOMAIN MAGIC_SIGNATURES[e]} : e \in DOMAIN MAGIC_SIGNATURES}

\* contents: nothing, each signature alone, followed by data, cut short by a
\* byte, and behind four other bytes
Contents ==
    {<<>>}
      \cup AllSignatures
      \cup {sig \o <<1, 2, 3, 4, 5>> : sig \in AllSignatures}
      \cup {SubSeq(sig, 1, Len(sig) - 1) : sig \in AllSignatures}
      \cup {<<0, 0, 0, 40>> \o sig : sig \in AllSignatures}

MagicCalls ==
    {[fn |-> "_check_magic_bytes", content |-> c, ext |-> e] :
        c \in Contents, e \in DOMAIN MAGIC_SIGNATURES \cup {".txt"}}

CheckMagic ==
    /\ arg \in MagicCalls
    /\ ret = NoRet
    /\ ret' = [fn |-> arg.fn, result |-> _check_magic_bytes(arg.content, arg.ext)]
    /\ UNCHANGED <<files, tr, di, an, queue, pc, cur, tres, dres, frame, call,
                   operators, req, resp, tasks, busVars, arg>>

\* ------------------------------------------- ws.py: WebSocketManager alone
\* the two maps of the manager as dicts (functions on the keys they hold),
\* the sockets whose handler is in its loop, and the broadcast task that
\* waits in a send, if any (the sockets its sends have failed for so far)
NoTask == [file |-> NoId, dead |-> {}]
NewManager ==
    [fn |-> "WebSocketManager",
     subscriptions |-> [f \in {} |-> {}],
     ws_files |-> [c \in {} |-> {}],
     live |-> {},
     task |-> NoTask]

\* d.get(k, set())
get_set(d, k) == IF k \in DOMAIN d THEN d[k] ELSE {}

\* d.pop(k, None)
pop(d, k) == [x \in DOMAIN d \ {k} |-> d[x]]

\* connect(ws): self._ws_files[id(ws)] = set()
ws_connect(m, ws) == [m EXCEPT !.ws_files = (ws :> {}) @@ m.ws_files]

\* subscribe(ws, file_id)
ws_subscribe(m, ws, file_id) ==
    [m EXCEPT !.subscriptions = (file_id :> (get_set(m.subscriptions, file_id) \cup {ws}))
                                    @@ m.subscriptions,
              !.ws_files = (ws :> (get_set(m.ws_files, ws) \cup {file_id})) @@ m.ws_files]

\* a disconnect that leaves the emptied topics in the map
ws_disconnect_keeps_topics(m, ws) ==
    LET fids == get_set(m.ws_files, ws)
    IN [m EXCEPT !.ws_files = pop(m.ws_files, ws),
                 !.subscriptions = [f \in DOMAIN m.subscriptions |->
                                       IF f \in fids THEN m.subscriptions[f] \ {ws}
                                                     ELSE m.subscriptions[f]]]

\* disconnect(ws): pop the socket's files, discard the socket from each of
\* their topics and pop the topics that are left empty
ws_disconnect(m, ws) ==
    LET fids == get_set(m.ws_files, ws)
        discarded == [f \in DOMAIN m.subscriptions |->
                        IF f \in fids THEN m.subscriptions[f] \ {ws}
                                      ELSE m.subscriptions[f]]
        emptied == {f \in fids \cap DOMAIN discarded : discarded[f] = {}}
    IN [m EXCEPT !.ws_files = pop(m.ws_files, ws),
                 !.subscriptions = [f \in DOMAIN discarded \ emptied |-> discarded[f]]]

\* "for ws in dead: self.disconnect(ws)"
RECURSIVE disconnect_all(_, _)
disconnect_all(m, dead) ==
    IF dead = {} THEN m
    ELSE LET ws == CHOOSE x \in dead : TRUE
         IN disconnect_all(ws_disconnect(m, ws), dead \ {ws})

ManagerStep(call_made, m) ==
    /\ ret.fn = "WebSocketManager"
    /\ arg' = call_made
    /\ ret' = m
    /\ UNCHANGED <<files, tr, di, an, queue, pc, cur, tres, dres, frame, call,
                   operators, req, resp, tasks, busVars>>

\* websocket_endpoint: accept, connect
ManagerConnect(c) ==
    /\ c \notin ret.live
    /\ ManagerStep([fn |-> "connect", ws |-> c],
                   [ws_connect(ret, c) EXCEPT !.live = @ \cup {c}])

\* websocket_endpoint: a message with a file_id
ManagerSubscribe(c, f) ==
    /\ c \in ret.live
    /\ ManagerStep([fn |-> "subscribe", ws |-> c, file_id |-> f], ws_subscribe(ret, c, f))

\* websocket_endpoint: finally disconnect.  A broadcast task that still
\* holds the socket calls disconnect for it later, which finds nothing.
ManagerDisconnect(c) ==
    /\ c \in ret.live
    /\ ManagerStep([fn |-> "disconnect", ws |-> c],
                   [ws_disconnect(ret, c) EXCEPT !.live = @ \ {c}, !.task.dead = @ \ {c}])

\* broadcast_progress up to the end of its walk: it copies the subscribers
\* of the file and sends; some sends may fail
BroadcastWalk(f) ==
    /\ ret.fn = "WebSocketManager"
    /\ ret.task = NoTask
    /\ LET subscribers == get_set(ret.subscriptions, f)
       IN \E dead \in SUBSET subscribers :
             ManagerStep([fn |-> "broadcast_progress", file_id |-> f],
                         [ret EXCEPT !.task = IF dead = {} THEN NoTask
                                              ELSE [file |-> f, dead |-> dead]])

\* broadcast_progress after its walk: disconnect for every dead socket
BroadcastCleanup ==
    /\ ret.fn = "WebSocketManager"
    /\ ret.task # NoTask
    /\ ManagerStep([fn |-> "broadcast_progress", file_id |-> ret.task.file],
                   [disconnect_all(ret, ret.task.dead) EXCEPT !.task = NoTask])

NextManager ==
    \/ \E c \in Clients : ManagerConnect(c)
    \/ \E c \in Clients, f \in Ids : ManagerSubscribe(c, f)
    \/ \E c \in Clients : ManagerDisconnect(c)
    \/ \E f \in Ids : BroadcastWalk(f)
    \/ BroadcastCleanup

InitManager == Fresh /\ arg = NoArg /\ ret = NewManager

SpecManager == InitManager /\ [][NextManager]_vars

\* ---------------------------------------------------------- diarization.py
\* times are whole ticks
Times == 0..MaxTime
Labels == {"SPEAKER_00", "SPEAKER_01", "SPEAKER_02"}
Turns == {t \in [start : Times, end : Times, label : Labels] : t.start < t.end}

\* diarization.itertracks(): the turns of the engine, in chronological order
RawSegments ==
    {q \in UNION {[1..n -> Turns] : n \in 0..MaxSegments} :
        \A i, j \in DOMAIN q : i < j => q[i].start <= q[j].start}

WordStamps == {w \in [start : Times, end : Times] : w.start <= w.end}
WordLists == UNION {[1..n -> WordStamps] : n \in 1..MaxWords}

\* sorted(raw_segments, key=lambda x: x[0]): stable insertion by start
RECURSIVE insert_by_start(_, _)
insert_by_start(q, x) ==
    IF q = <<>> THEN <<x>>
    ELSE IF q[Len(q)].start <= x.start THEN Append(q, x)
    ELSE Append(insert_by_start(SubSeq(q, 1, Len(q) - 1), x), q[Len(q)])

RECURSIVE sorted_by_start(_)
sorted_by_start(q) ==
    IF q = <<>> THEN <<>>
    ELSE insert_by_start(sorted_by_start(SubSeq(q, 1, Len(q) - 1)), q[Len(q)])

\* the list "seen": labels in the order of their first turn
RECURSIVE seen_labels(_, _)
seen_labels(q, seen) ==
    IF q = <<>> THEN seen
    ELSE seen_labels(Tail(q),
            IF \E i \in DOMAIN seen : seen[i] = Head(q).label
                THEN seen ELSE Append(seen, Head(q).label))

roles == <<"operator", "client">>

_build_speaker_map(raw_segments) ==
    LET seen == seen_labels(sorted_by_start(raw_segments), <<>>)
    IN [lbl \in {seen[i] : i \in DOMAIN seen} |->
          LET i == CHOOSE k \in DOMAIN seen : seen[k] = lbl
          IN IF i <= Len(roles) THEN roles[i] ELSE "unknown"]

\* speaker_map.get(lbl, "unknown")
get(mapping, lbl) == IF lbl \in DOMAIN mapping THEN mapping[lbl] ELSE "unknown"

min(a, b) == IF a < b THEN a ELSE b
max(a, b) == IF a > b THEN a ELSE b

\* a comparison by which a later segment takes a tie
better_or_equal(overlap, best_overlap) == overlap >= best_overlap

\* if overlap > best_overlap
better(overlap, best_overlap) == overlap > best_overlap

\* the loop "for seg in segments" with best_speaker and best_overlap so far
RECURSIVE _find_speaker(_, _, _, _, _)
_find_speaker(word_start, word_end, segments, best_speaker, best_overlap) ==
    IF segments = <<>> THEN best_speaker
    ELSE LET seg == Head(segments)
             overlap == max(0, min(word_end, seg.end) - max(word_start, seg.start))
         IN IF better(overlap, best_overlap)
              THEN _find_speaker(word_start, word_end, Tail(segments), seg.speaker, overlap)
              ELSE _find_speaker(word_start, word_end, Tail(segments), best_speaker, best_overlap)

\* consecutive words of one speaker become one utterance
RECURSIVE _merge_adjacent_segments(_, _)
_merge_adjacent_segments(words, merged) ==
    IF words = <<>> THEN merged
    ELSE LET w == Head(words)
         IN IF merged # <<>> /\ merged[Len(merged)].speaker = w.speaker
              THEN _merge_adjacent_segments(Tail(words),
                     [merged EXCEPT ![Len(merged)].end = w.end])
              ELSE _merge_adjacent_segments(Tail(words), Append(merged, w))

\* the words with their speakers, before they are merged
word_speakers(word_timestamps, segments) ==
    [i \in DOMAIN word_timestamps |->
        [speaker |-> _find_speaker(word_timestamps[i].start, word_timestamps[i].end,
                                   segments, "unknown", 0),
         start |-> word_timestamps[i].start,
         end |-> word_timestamps[i].end]]

\* _diarize_mono from the turns of the engine on
_diarize_mono(raw_segments, word_timestamps) ==
    LET speaker_map == _build_speaker_map(raw_segments)
        segments == [i \in DOMAIN raw_segments |->
                        [speaker |-> get(speaker_map, raw_segments[i].label),
                         start |-> raw_segments[i].start,
                         end |-> raw_segments[i].end]]
        words == word_speakers(word_timestamps, segments)
    IN [speaker_map |-> speaker_map,
        segments |-> segments,
        words |-> words,
        transcript_segments |-> _merge_adjacent_segments(words, <<>>)]

DiarizeCalls ==
    {[fn |-> "_diarize_mono", raw_segments |-> q, word_timestamps |-> w] :
        q \in RawSegments, w \in WordLists}

DiarizeMono ==
    /\ arg \in DiarizeCalls
    /\ ret = NoRet
    /\ ret' = [fn |-> arg.fn, result |-> _diarize_mono(arg.raw_segments, arg.word_timestamps)]
    /\ UNCHANGED <<files, tr, di, an, queue, pc, cur, tres, dres, frame, call,
                   operators, req, resp, tasks, busVars, arg>>

\* A child table (transcriptions, diarizations or analyses) is the list of
\* its committed rows; file_id is unique in each (models.py:83, 100, 118).
ChildValues == {"v1", "v2"}
ChildRows == [file : Ids, value : ChildValues]
ChildTables ==
    {t \in UNION {[1..n -> ChildRows] : n \in 0..MaxFiles} :
        \A i, j \in DOMAIN t : t[i].file = t[j].file => i = j}

\* a save that only inserts
save_child_insert_only(rows, f, new) ==
    <<Append(rows, [file |-> f, value |-> new])>>

\* _save_transcription, _save_diarization, _save_analysis for File f: the
\* tables the Store commits, in order (the delete is flushed, not committed)
save_child(rows, f, new) ==
    LET existing == {i \in DOMAIN rows : rows[i].file = f}
        flushed == IF existing # {}
                     THEN LET i == CHOOSE j \in existing : \A k \in existing : j <= k
                          IN SubSeq(rows, 1, i - 1) \o SubSeq(rows, i + 1, Len(rows))
                     ELSE rows
    IN <<Append(flushed, [file |-> f, value |-> new])>>

SaveCalls ==
    {[fn |-> fn, rows |-> t, file |-> f, result |-> v] :
        fn \in {"_save_transcription", "_save_diarization", "_save_analysis"},
        t \in ChildTables, f \in Ids, v \in ChildValues}

Save ==
    /\ arg \in SaveCalls
    /\ ret = NoRet
    /\ ret' = [fn |-> arg.fn, commits |-> save_child(arg.rows, arg.file, arg.result)]
    /\ UNCHANGED <<files, tr, di, an, queue, pc, cur, tres, dres, frame, call,
                   operators, req, resp, tasks, busVars, arg>>

\* one attempt of the scoring stage on a reply of the engine: the reply is
\* parsed and, unless the parser returns None, the Analysis is saved
ParserCalls == {[fn |-> "_parse_and_validate", raw |-> r] : r \in Replies}

Parse ==
    /\ arg \in ParserCalls
    /\ ret = NoRet
    /\ \E up \in BOOLEAN :
          LET result == parse_and_validate(arg.raw, up)
          IN ret' = [fn |-> arg.fn, result |-> result,
                     row |-> IF result = None THEN None ELSE save_analysis(result)]
    /\ UNCHANGED <<files, tr, di, an, queue, pc, cur, tres, dres, frame, call,
                   operators, req, resp, tasks, busVars, arg>>

\* --------------------------------------------------------- specifications
\* one call of the validator, on any blob
InitValidator == Fresh /\ arg \in ValidatorCalls /\ ret = NoRet

SpecValidator == InitValidator /\ [][Validate]_vars

\* one call of analyze against an engine that follows a script
InitAnalyze == Fresh /\ arg \in AnalyzeCalls /\ ret = NoRet

SpecAnalyze == InitAnalyze /\ [][Analyze]_vars

\* one pyannote diarization of a transcript
InitDiarize == Fresh /\ arg \in DiarizeCalls /\ ret = NoRet

SpecDiarize == InitDiarize /\ [][DiarizeMono]_vars

\* one call of the magic-byte check
InitMagic == Fresh /\ arg \in MagicCalls /\ ret = NoRet

SpecMagic == InitMagic /\ [][CheckMagic]_vars

\* one call of a _save_* helper, on any child table the schema admits
InitSave == Fresh /\ arg \in SaveCalls /\ ret = NoRet

SpecSave == InitSave /\ [][Save]_vars

\* one reply of the scoring engine, parsed and saved
InitParser == Fresh /\ arg \in ParserCalls /\ ret = NoRet

SpecParser == InitParser /\ [][Parse]_vars

\* The process starts (recovery pass, then the worker), serves uploads of
\* recordings, works the queue one commit at a time with engines that may
\* fail, and may die at any point and be started again.
Next ==
    \/ recover_interrupted
    \/ Crash
    \/ UploadRecordings
    \/ Dequeue
    \/ Stage1Begin
    \/ Stage1Ok
    \/ Stage1Raise
    \/ Stage1End
    \/ Stage2Begin
    \/ Stage2Ok
    \/ Stage2Raise
    \/ Stage2End
    \/ Stage3Begin
    \/ Stage3Ok
    \/ Stage3Unavailable
    \/ Finalise

Spec == Init /\ [][Next]_vars

\* mock engines that always succeed: no engine raises, the scoring engine is
\* available
NextReliable ==
    \/ recover_interrupted
    \/ Crash
    \/ UploadRecordings
    \/ Dequeue
    \/ Stage1Begin
    \/ Stage1Ok
    \/ Stage1End
    \/ Stage2Begin
    \/ Stage2Ok
    \/ Stage2End
    \/ Stage3Begin
    \/ Stage3Ok
    \/ Finalise

SpecReliable == Init /\ [][NextReliable]_vars

\* the same system with every batch the ingestion path can be sent
NextIngest ==
    \/ recover_interrupted
    \/ Crash
    \/ Upload
    \/ Dequeue
    \/ Stage1Begin
    \/ Stage1Ok
    \/ Stage1Raise
    \/ Stage1End
    \/ Stage2Begin
    \/ Stage2Ok
    \/ Stage2Raise
    \/ Stage2End
    \/ Stage3Begin
    \/ Stage3Ok
    \/ Stage3Unavailable
    \/ Finalise

SpecIngest == Init /\ [][NextIngest]_vars

\* two upload requests in flight at once (one of them held at its first
\* suspension while the other is served), engines that succeed
NextRace ==
    \/ recover_interrupted
    \/ Crash
    \/ UploadRecordings
    \/ UploadBegin
    \/ UploadEnd
    \/ Dequeue
    \/ Stage1Begin
    \/ Stage1Ok
    \/ Stage1End
    \/ Stage2Begin
    \/ Stage2Ok
    \/ Stage2End
    \/ Stage3Begin
    \/ Stage3Ok
    \/ Finalise

SpecRace == Init /\ [][NextRace]_vars

\* the ingestion path with every batch and form it can be sent, engines that
\* succeed
NextIntake ==
    \/ recover_interrupted
    \/ Crash
    \/ Upload
    \/ Dequeue
    \/ Stage1Begin
    \/ Stage1Ok
    \/ Stage1End
    \/ Stage2Begin
    \/ Stage2Ok
    \/ Stage2End
    \/ Stage3Begin
    \/ Stage3Ok
    \/ Finalise

SpecIntake == Init /\ [][NextIntake]_vars

\* every batch, each upload leaving its batch on record, engines that succeed
NextBatch ==
    \/ recover_interrupted
    \/ Crash
    \/ UploadOf
    \/ Dequeue
    \/ Stage1Begin
    \/ Stage1Ok
    \/ Stage1End
    \/ Stage2Begin
    \/ Stage2Ok
    \/ Stage2End
    \/ Stage3Begin
    \/ Stage3Ok
    \/ Finalise

SpecBatch == Init /\ [][NextBatch]_vars

\* engines that succeed, a Store whose calls may fail under process_file
NextFaulty ==
    \/ recover_interrupted
    \/ Crash
    \/ UploadRecordings
    \/ Dequeue
    \/ Stage1Begin
    \/ Stage1Ok
    \/ Stage1End
    \/ Stage2Begin
    \/ Stage2Ok
    \/ Stage2End
    \/ Stage3Begin
    \/ Stage3Ok
    \/ Finalise
    \/ Unhandled

SpecFaulty == Init /\ [][NextFaulty]_vars

\* the worker loop is a task of the event loop: while the process lives and
\* the queue holds an id, the queue wait returns
SpecFaultyLive == SpecFaulty /\ WF_vars(Dequeue)

\* a step of the worker task: process_queue and the process_file it awaits
WorkerStep ==
    \/ Dequeue
    \/ Stage1Begin
    \/ Stage1Ok
    \/ Stage1Raise
    \/ Stage1End
    \/ Stage2Begin
    \/ Stage2Ok
    \/ Stage2Raise
    \/ Stage2End
    \/ Stage3Begin
    \/ Stage3Ok
    \/ Stage3Unavailable
    \/ Finalise

\* a process that is started once and stays up: no crash, no stop request;
\* engines that return or raise, a Store whose calls may fail under
\* process_file
NextSteady ==
    \/ recover_interrupted
    \/ UploadRecordings
    \/ Dequeue
    \/ Stage1Begin
    \/ Stage1Ok
    \/ Stage1Raise
    \/ Stage1End
    \/ Stage2Begin
    \/ Stage2Ok
    \/ Stage2Raise
    \/ Stage2End
    \/ Stage3Begin
    \/ Stage3Ok
    \/ Stage3Unavailable
    \/ Finalise
    \/ Unhandled

\* the event loop is fair to the worker task and every engine call comes
\* back: a worker that can take a step takes one
SpecSteady == Init /\ [][NextSteady]_vars /\ WF_vars(WorkerStep)

\* engines that succeed, and the graceful shutdown of the application
NextShutdown ==
    \/ recover_interrupted
    \/ Crash
    \/ UploadRecordings
    \/ Dequeue
    \/ Stage1Begin
    \/ Stage1Ok
    \/ Stage1End
    \/ Stage2Begin
    \/ Stage2Ok
    \/ Stage2End
    \/ Stage3Begin
    \/ Stage3Ok
    \/ Finalise
    \/ Shutdown

SpecShutdown == Init /\ [][NextShutdown]_vars

\* engines that succeed, and WebSocket clients on the progress bus
NextBus ==
    \/ recover_interrupted
    \/ Crash
    \/ UploadRecordings
    \/ Dequeue
    \/ Stage1Begin
    \/ Stage1Ok
    \/ Stage1End
    \/ Stage2Begin
    \/ Stage2Ok
    \/ Stage2End
    \/ Stage3Begin
    \/ Stage3Ok
    \/ Finalise
    \/ \E c \in Clients : Connect(c)
    \/ \E c \in Clients, f \in Ids : SubscribeOne(c, f)
    \/ \E c \in Clients : Disconnect(c)
    \/ TaskStart
    \/ \E i \in 1..MaxSuspended : TaskResume(i)

SpecBus == Init /\ [][NextBus]_vars

\* the first recording the Store is given, sent alone
UploadFirst ==
    /\ \A f \in Ids : files[f].status = "absent"
    /\ \E name \in OperatorNames : upload_files(<<BlobA>>, name)

\* the bus of a process that stays up and is given one recording, with
\* engines that return or raise and connections that hold until the client
\* ends them
NextDelivery ==
    \/ recover_interrupted
    \/ UploadFirst
    \/ Dequeue
    \/ Stage1Begin
    \/ Stage1Ok
    \/ Stage1Raise
    \/ Stage1End
    \/ Stage2Begin
    \/ Stage2Ok
    \/ Stage2Raise
    \/ Stage2End
    \/ Stage3Begin
    \/ Stage3Ok
    \/ Stage3Unavailable
    \/ Finalise
    \/ \E c \in Clients : Connect(c)
    \/ \E c \in Clients, f \in Ids : SubscribeOne(c, f)
    \/ \E c \in Clients : Disconnect(c)
    \/ TaskStart
    \/ \E i \in 1..MaxSuspended : TaskResume(i)

\* the event loop runs every task that is ready: the worker, a broadcast
\* task that was created, a broadcast task whose send has returned
SpecDelivery ==
    /\ Init /\ [][NextDelivery]_vars
    /\ WF_vars(WorkerStep)
    /\ WF_vars(TaskStart)
    /\ \A i \in 1..MaxSuspended : WF_vars(TaskResume(i))

\* the bus with clients that follow several ids and connections that may
\* break under a send, engines that succeed, a process that stays up
NextFanout ==
    \/ recover_interrupted
    \/ UploadRecordings
    \/ Dequeue
    \/ Stage1Begin
    \/ Stage1Ok
    \/ Stage1End
    \/ Stage2Begin
    \/ Stage2Ok
    \/ Stage2End
    \/ Stage3Begin
    \/ Stage3Ok
    \/ Finalise
    \/ \E c \in Clients : Connect(c)
    \/ \E c \in Clients, f \in Ids : SubscribeEarly(c, f)
    \/ \E c \in Clients : Disconnect(c)
    \/ TaskStartLossy
    \/ \E i \in 1..MaxSuspended : TaskResumeLossy(i)

SpecFanout == Init /\ [][NextFanout]_vars

\* ------------------------------------------------------------- properties
Exists(f) == files[f].status # "absent"
Occurrences(q, f) == Cardinality({i \in DOMAIN q : q[i] = f})

\* C1: in every committed state a File has status done exactly when its
\* stage is 4.
C1_DoneIffStage4 ==
    \A f \in Ids : Exists(f) => ((files[f].status = "done") <=> (files[f].stage = 4))

\* a finished file next to a failed one that stopped before stage 4
C1_Witness ==
    \E f, g \in Ids :
        /\ files[f].status = "done" /\ files[f].stage = 4
        /\ files[g].status = "failed" /\ files[g].stage < 4

\* C2: in every committed state a File with stage >= 1 has a Transcription
\* row and a File with stage >= 2 has a Diarization row.
C2_CheckpointArtefacts ==
    \A f \in Ids :
        /\ files[f].stage >= 1 => tr[f] # "none"
        /\ files[f].stage >= 2 => di[f] # "none"

\* C3: with engines that succeed, a File that reaches done (also after a
\* crash in the middle of a stage and a restart) has the Transcription,
\* Diarization and Analysis of an uninterrupted run.
C3_SameArtefactsAsUninterrupted ==
    \A f \in Ids :
        files[f].status = "done" =>
            /\ tr[f] = Whisper
            /\ di[f] = Diarize(Whisper)
            /\ an[f] = run_analysis(f, Diarize(Whisper))

\* C4: the recovery pass rewrites to queued exactly the Files that are
\* transcribing, diarizing or analyzing, changes nothing else of any File or
\* artefact, and leaves each rewritten id in the queue exactly once (and no
\* other id) before the worker serves.
C4_RecoveryFrame ==
    [][(pc = "down" /\ pc' = "idle") =>
        /\ \A f \in Ids :
             files'[f] = IF files[f].status \in {"transcribing", "diarizing", "analyzing"}
                           THEN [files[f] EXCEPT !.status = "queued"]
                           ELSE files[f]
        /\ tr' = tr /\ di' = di /\ an' = an
        /\ \A f \in Ids :
             Occurrences(queue', f) =
                IF files[f].status \in {"transcribing", "diarizing", "analyzing"} THEN 1 ELSE 0
        /\ cur' = NoId]_vars

\* a recovered file (queued with its stage kept) waiting alone in the queue
\* next to a failed file the pass left alone
C4_Witness ==
    \E f, g \in Ids :
        /\ pc = "idle" /\ cur = NoId /\ queue = <<f>>
        /\ files[f].status = "queued" /\ files[f].stage >= 1
        /\ files[g].status = "failed"

\* C5: no step lowers the stage of a File.
C5_StageMonotone ==
    [][\A f \in Ids : files'[f].stage >= files[f].stage]_vars

\* a file recovered after a crash in stage 2: queued, stage still 2
C5_Witness ==
    \E f \in Ids : files[f].status = "queued" /\ files[f].stage = 2 /\ f \in {queue[i] : i \in DOMAIN queue}

\* C6: when the transcription or diarization engine raises, the File is
\* committed failed with a non-empty error_message and retry_count + 1, an
\* error frame is published, the run ends without touching any artefact, and
\* after a transcription failure there is no Transcription row.
C6_FatalStageFailure ==
    [][(pc \in {"s1_engine", "s2_engine"} /\ call'.outcome = "raise") =>
        /\ files'[cur].status = "failed"
        /\ files'[cur].error_message # ""
        /\ files'[cur].retry_count = files[cur].retry_count + 1
        /\ files'[cur].stage = files[cur].stage
        /\ frame'.type = "error" /\ frame'.file = cur /\ frame'.status = "failed"
        /\ pc' = "idle" /\ cur' = NoId
        /\ tr' = tr /\ di' = di /\ an' = an
        /\ (call'.stage = 1 => tr'[cur] = "none")]_vars

\* the diarization engine has just raised for a file that has its
\* Transcription
C6_Witness ==
    /\ call.outcome = "raise" /\ call.stage = 2
    /\ files[call.file].status = "failed" /\ tr[call.file] # "none"
    /\ frame.type = "error"

\* C7: once a File is failed, no step changes its status, stage or progress.
C7_FailedIsTerminal ==
    [][\A f \in Ids :
         files[f].status = "failed" =>
            /\ files'[f].status = "failed"
            /\ files'[f].stage = files[f].stage
            /\ files'[f].progress = files[f].progress]_vars

\* C8: when the scoring engine raises or returns None, the File and the
\* analyses table are left as they are and the run goes on to finalise,
\* which commits done, stage 4, progress 100 with retry_count unchanged.
C8_AnalysisNonFatal ==
    [][/\ (pc = "s3_engine" /\ call'.outcome \in {"unavailable", "raise"}) =>
            /\ files' = files /\ an' = an
            /\ pc' = "finalise" /\ cur' = cur
       /\ (pc = "finalise" /\ pc' = "idle") =>
            /\ files'[cur] = [files[cur] EXCEPT !.status = "done", !.stage = 4,
                                                !.progress = 100]
            /\ an' = an]_vars

\* the scoring engine has just raised and the run stands before finalise
\* with no Analysis row
C8_Witness ==
    /\ call.stage = 3 /\ call.outcome = "raise"
    /\ pc = "finalise" /\ an[cur] = "none" /\ files[cur].status = "analyzing"

\* C9: when process_file enters with stage >= N (N = 1, 2) and the stage-N
\* artefact is missing, it goes on to invoke the stage-N engine, so a File
\* that reaches done has its Transcription and Diarization.
C9_MissingCheckpointRerun ==
    [][/\ (pc = "stage1" /\ pc' \notin {"stage1", "down"}
            /\ files[cur].stage >= 1 /\ tr[cur] = "none") => pc' = "s1_engine"
       /\ (pc = "stage2" /\ pc' \notin {"stage2", "down"}
            /\ files[cur].stage >= 2 /\ di[cur] = "none") => pc' = "s2_engine"
       /\ \A f \in Ids :
            files'[f].status = "done" => (tr'[f] # "none" /\ di'[f] # "none")]_vars

ValidBlob(b) == validate_audio_file(b, {}).valid

\* C10: an upload of the bytes of a non-failed File returns that File's id
\* and inserts nothing; in a batch of valid blobs every blob gets an id, equal
\* blobs get the same id, in input order, and one File is inserted per new
\* hash.
C10_DedupIdempotent ==
    pc # "down" =>
        /\ \A f \in Ids, b \in Blobs, m \in HashMaps :
             (/\ Exists(f) /\ files[f].status # "failed"
              /\ ValidBlob(b) /\ compute_sha256(b) = files[f].file_hash) =>
                LET st == UploadResult(<<b>>, m)
                IN Response(st).file_ids = <<f>> /\ st.added = {}
        /\ \A batch \in Batches, m \in HashMaps :
             LET st == UploadResult(batch, m)
             IN ((\A i \in DOMAIN batch : ValidBlob(batch[i])) /\ st.ok) =>
                  /\ Len(Response(st).file_ids) = Len(batch)
                  /\ \A i, j \in DOMAIN batch :
                       (batch[i] = batch[j]) <=> (Response(st).file_ids[i] = Response(st).file_ids[j])
                  /\ Cardinality(st.added) =
                       Cardinality({compute_sha256(batch[i]) : i \in DOMAIN batch}
                                     \ {h \in Hashes : m[h] # NoId})

\* C11: whenever no upload request is in flight, at most one non-failed File
\* exists per file_hash, however two requests with the same bytes interleaved.
C11_DedupRaceSafe ==
    req = NoReq => \A h \in Hashes : Cardinality(NonFailed(h)) <= 1

\* the ids a request puts in the queue
Enqueued(st) == IF Response(st).code = 400 THEN <<>> ELSE ToEnqueue(st)

\* C12: a batch upload that commits enqueues each File id it inserted exactly
\* once and no id it resolved as a duplicate (of an earlier File or of an
\* earlier blob of the batch).
C12_EnqueueOnlyNew ==
    pc \notin {"down", "stopped"} =>
        \A batch \in Batches, m \in HashMaps :
            LET st == UploadResult(batch, m)
            IN st.ok =>
                 \A f \in Ids :
                    Occurrences(Enqueued(st), f) = IF f \in st.added THEN 1 ELSE 0

\* a step of POST /upload: the worker does not move and a response is sent
UploadStep == pc' = pc /\ resp' # 0 /\ UNCHANGED <<tasks, susp, clients, req>>

\* C13: a request gets 400 exactly when every blob of its batch fails
\* validation; a request that ends in 400 leaves the files table, the
\* operators table and the queue as they were; every other request (with a
\* non-blank operator) commits: its Operator row exists afterwards, no row
\* is removed or changed and every row it inserted is queued at stage 0.
C13_AllFailedAborts ==
    /\ [](pc \notin {"down", "stopped"} =>
            \A batch \in Batches, m \in HashMaps :
                LET st == UploadResult(batch, m)
                IN st.ok => ((\A i \in DOMAIN batch : ~ValidBlob(batch[i]))
                                <=> Response(st).code = 400))
    /\ [][UploadStep =>
            /\ resp' = 400 => (files' = files /\ operators' = operators /\ queue' = queue)
            /\ resp' = 200 =>
                 /\ operators'["anna"] >= 1
                 /\ \A f \in Ids :
                      IF Exists(f) THEN files'[f] = files[f]
                      ELSE files'[f] \in {AbsentFile, NewFile("A")}]_vars

\* a request was just refused with 400 on a Store that has no Operator and no
\* File
C13_Witness ==
    /\ resp = 400 /\ pc = "idle"
    /\ operators["anna"] = 0 /\ \A f \in Ids : ~Exists(f)
    /\ queue = <<>>

Running == {"transcribing", "diarizing", "analyzing"}

\* C14: while the process is up, every File that is transcribing, diarizing
\* or analyzing is the worker's current job, so at most one File is.
C14_OneJobAtATime ==
    pc # "down" =>
        /\ \A f \in Ids : files[f].status \in Running => f = cur
        /\ Cardinality({f \in Ids : files[f].status \in Running}) <= 1

\* C15: when process_file raises, the worker goes back to the queue wait
\* with _current cleared and the queue and the Store untouched; and if the
\* queue then holds an id, that id becomes the current job (unless the
\* process dies first).
C15_WorkerSurvivesError ==
    /\ [][(pc # "idle" /\ call'.outcome = "unhandled") =>
            /\ pc' = "idle" /\ cur' = NoId
            /\ queue' = queue /\ files' = files]_vars
    /\ \A f \in Ids :
         (call.outcome = "unhandled" /\ queue # <<>> /\ Head(queue) = f)
            ~> (cur = f \/ pc = "down")

\* process_file has just raised while another id waits in the queue
C15_Witness ==
    call.outcome = "unhandled" /\ pc = "idle" /\ cur = NoId /\ queue # <<>>

\* C16: when the worker loop ends on a stop request, the job it was
\* processing has reached done or failed; a stopped worker starts no job.
C16_StopDrainsCurrentJob ==
    [][/\ (pc # "stopped" /\ pc' = "stopped" /\ cur # NoId) =>
            files'[cur].status \in {"done", "failed"}
       /\ pc = "stopped" => (pc' \in {"stopped", "down"} /\ cur' = NoId)]_vars

\* (stage, progress) of x is not after (stage, progress) of y
LexLeq(x, y) == x.stage < y.stage \/ (x.stage = y.stage /\ x.progress <= y.progress)

\* a step of the worker that hands a frame to _broadcast
Publishes == pc' # pc /\ frame' # NoFrame

\* C18: every commit of process_file moves (stage, progress) of the File
\* forward or leaves it (lexicographically), the frame it publishes carries
\* the committed pair, and between two running statuses the stored progress
\* does not go down.
C18_ProgressMonotone ==
    [][/\ \A f \in Ids : Exists(f) =>
            /\ LexLeq(files[f], files'[f])
            /\ (files[f].status \in Running /\ files'[f].status \in Running)
                    => files'[f].progress >= files[f].progress
       /\ Publishes =>
            /\ frame'.stage = files'[frame'.file].stage
            /\ frame'.progress = files'[frame'.file].progress
            /\ LexLeq(files[frame'.file], frame')]_vars

\* the done frame of a run that went through all three engines has just been
\* published
C18_Witness ==
    /\ frame.status = "done" /\ frame.stage = 4 /\ frame.progress = 100
    /\ tr[frame.file] # "none" /\ di[frame.file] # "none" /\ an[frame.file] # "none"
    /\ files[frame.file].retry_count = 0

\* the stage a running status belongs to
StageOf(status) ==
    CASE status = "transcribing" -> 1 [] status = "diarizing" -> 2
      [] status = "analyzing" -> 3 [] OTHER -> 4

\* C19: no frame is published for a File whose done or failed frame has been
\* published (its status is done or failed), and running frames come in the
\* order transcribing, diarizing, analyzing (never a status of an earlier
\* stage than the one the File has reached).
C19_FramePath ==
    [][Publishes =>
        /\ files[frame'.file].status \notin {"done", "failed"}
        /\ frame'.status \in Running =>
              (frame'.stage = StageOf(frame'.status) /\ frame'.stage >= files[frame'.file].stage)]_vars

\* C17: a subscriber never receives, from the broadcast tasks, a frame of a
\* file that was committed before a frame of that file it has already
\* received.
C17_FramesInCommitOrder ==
    [][\A c \in Clients :
         (/\ clients'[c].last # clients[c].last
          /\ clients[c].last # NoFrame
          /\ clients'[c].last.file = clients[c].last.file)
            => ~Older(clients'[c].last, clients[c].last)]_vars

\* C20: after the snapshot of its subscription a subscriber receives at most
\* one frame whose (stage, progress) is older than the snapshot.
C20_AtMostOneStaleFrame ==
    \A c \in Clients : clients[c].stale <= 1

Range(q) == {q[i] : i \in DOMAIN q}

\* C21: a step of a broadcast task never writes to the Store; the socket it
\* writes to receives the frame or is put on the task's list of failed
\* sockets, and in both cases the sockets still to be served stay on the
\* walk; when the walk is over every failed socket is out of every topic and
\* no other client is touched.
C21_SendFailureDropsSubscriber ==
    [][/\ (TaskStartLossy \/ \E i \in 1..MaxSuspended : TaskResumeLossy(i)) =>
            (files' = files /\ tr' = tr /\ di' = di /\ an' = an)
       /\ TaskStartLossy =>
            LET frm == Head(tasks)
                S == {c \in Clients : frm.file \in clients[c].topics}
            IN S # {} =>
                \/ \E c \in S : S = {c} /\ clients'[c].last = frm /\ susp' = susp
                \/ /\ Len(susp') = Len(susp) + 1
                   /\ LET t == susp'[Len(susp')]
                      IN /\ t.frame = frm /\ t.waiting \in S
                         /\ Range(t.todo) = S \ {t.waiting}
                         /\ \/ clients'[t.waiting].last = frm /\ t.dead = {}
                            \/ t.dead = {t.waiting}
       /\ \A i \in 1..MaxSuspended : TaskResumeLossy(i) =>
            LET t == susp[i]
            IN IF t.todo = <<>>
                 THEN \A c \in Clients :
                        IF c \in t.dead THEN clients'[c].topics = {}
                                        ELSE clients'[c] = clients[c]
                 ELSE LET c == Head(t.todo)
                          failed == /\ i \in DOMAIN susp'
                                    /\ susp'[i].frame = t.frame
                                    /\ susp'[i].dead = t.dead \cup {c}
                                    /\ susp'[i].todo = Tail(t.todo)
                          sent == /\ clients'[c].last = t.frame
                                  /\ IF Len(t.todo) > 1 \/ t.dead # {}
                                       THEN /\ i \in DOMAIN susp'
                                            /\ susp'[i].frame = t.frame
                                            /\ susp'[i].dead = t.dead
                                            /\ susp'[i].todo = Tail(t.todo)
                                       ELSE Len(susp') = Len(susp) - 1
                      IN sent \/ failed]_vars

\* a walk is over with the send to one client failed and the frame received
\* by the other subscriber of the file; the failed client follows two ids
C21_Witness ==
    \E i \in DOMAIN susp, x, y \in Clients :
        /\ susp[i].todo = <<>> /\ susp[i].dead = {x}
        /\ clients[x].topics = Ids
        /\ y # x /\ susp[i].frame.file \in clients[y].topics
        /\ clients[y].last = susp[i].frame

\* the first check of the list (extension, size, magic bytes, probe,
\* duration range, duplicate) that the blob fails, "" if it passes all
FirstFailing(b, H) ==
    IF ~b.ext THEN "extension"
    ELSE IF b.size # "ok" THEN "size"
    ELSE IF ~b.magic THEN "magic"
    ELSE IF b.probe # "ok" THEN "probe"
    ELSE IF b.duration # "ok" THEN "duration"
    ELSE IF b.hash \in H THEN "duplicate"
    ELSE ""

\* the check a reason string of the validator belongs to
CheckOf(error) ==
    CASE error \in {"size", "empty"} -> "size"
      [] error \in {"short", "long"} -> "duration"
      [] OTHER -> error

\* C22: the validator reports the first check the blob fails, in the order
\* extension, size, magic bytes, probe, duration range, duplicate; a
\* duplicate and a success carry the file's hash, its duration and its
\* channel count.
C22_FirstFailingCheck ==
    ret.fn = "validate_audio_file" =>
        LET b == arg.blob
            r == ret.result
        IN /\ CheckOf(r.error) = FirstFailing(b, arg.existing_hashes)
           /\ r.valid <=> (r.error = "")
           /\ (r.valid \/ r.error = "duplicate") =>
                 /\ r.file_hash = b.hash
                 /\ r.duration_sec = "ok"
                 /\ r.channels >= 1

\* the integers nearest to 0.4*standard + 0.3*loyalty + 0.3*kindness of a row
Recomputed(row) == {round(weighted(row), up) : up \in BOOLEAN}

\* C23: every Analysis saved has its four scores in [0,100] and an overall
\* within 5 of the recomputed weighted mean, and when the overall the engine
\* returned is more than 5 away from the recomputed value, the recomputed
\* value is what is stored.
C23_BoundedScores ==
    (ret.fn = "_parse_and_validate" /\ ret.row # None) =>
        /\ \A k \in {"standard", "loyalty", "kindness", "overall"} : ret.row[k] \in 0..100
        /\ \E n \in Recomputed(ret.row) : abs(ret.row.overall - n) <= 5
        /\ (\A n \in Recomputed(ret.row) : abs(arg.raw.overall - 10 * n) > 50)
              => ret.row.overall \in Recomputed(ret.row)

\* C29: every Analysis saved has a summary that is not empty after trimming.
C29_SummaryNonEmpty ==
    (ret.fn = "_parse_and_validate" /\ ret.row # None) => strip(ret.row.summary) # ""

\* the frames of an uninterrupted successful run from stage 0, in order
RunFrames ==
    <<[status |-> "transcribing", stage |-> 1, progress |-> 5],
      [status |-> "transcribing", stage |-> 1, progress |-> 40],
      [status |-> "diarizing", stage |-> 2, progress |-> 45],
      [status |-> "diarizing", stage |-> 2, progress |-> 70],
      [status |-> "analyzing", stage |-> 3, progress |-> 75],
      [status |-> "analyzing", stage |-> 3, progress |-> 90],
      [status |-> "done", stage |-> 4, progress |-> 100]>>

Triple(x) == [status |-> x.status, stage |-> x.stage, progress |-> x.progress]

\* C24: with engines that succeed, the frame published for a File that was
\* queued at stage 0 is (transcribing, 1, 5), and the frame published after
\* a frame of the run is the next one of the sequence (transcribing,5),
\* (transcribing,40), (diarizing,45), (diarizing,70), (analyzing,75),
\* (analyzing,90), (done,4,100).
C24_FrameSequence ==
    [][Publishes =>
        LET row == files[frame'.file]
        IN /\ (row.status = "queued" /\ row.stage = 0) => Triple(frame') = RunFrames[1]
           /\ \A i \in 1..(Len(RunFrames) - 1) :
                 Triple(row) = RunFrames[i] => Triple(frame') = RunFrames[i + 1]]_vars

\* C25: with engines that succeed, process_file skips every stage N <= the
\* File's stage whose artefact is present (no engine call, no write) and
\* runs every stage N > it; a Transcription, Diarization or Analysis row is
\* written only by the step that follows its engine; and the run ends with
\* the File at stage 4.
C25_ResumeSkipsDoneStages ==
    [][/\ (pc = "stage1" /\ pc' \notin {"stage1", "down"}) =>
            IF files[cur].stage >= 1
              THEN tr[cur] # "none" =>
                     (pc' = "stage2" /\ call' = NoCall /\ frame' = NoFrame
                      /\ files' = files /\ tr' = tr /\ di' = di /\ an' = an)
              ELSE pc' = "s1_engine"
       /\ (pc = "stage2" /\ pc' \notin {"stage2", "down"}) =>
            IF files[cur].stage >= 2
              THEN di[cur] # "none" =>
                     (pc' = "stage3" /\ call' = NoCall /\ frame' = NoFrame
                      /\ files' = files /\ tr' = tr /\ di' = di /\ an' = an)
              ELSE pc' = "s2_engine"
       /\ (pc = "stage3" /\ pc' \notin {"stage3", "down"}) =>
            IF files[cur].stage >= 3
              THEN an[cur] # "none" =>
                     (pc' = "finalise" /\ call' = NoCall /\ frame' = NoFrame
                      /\ files' = files /\ tr' = tr /\ di' = di /\ an' = an)
              ELSE pc' = "s3_engine"
       /\ (tr' # tr => (pc = "s1_engine" /\ files[cur].stage = 1))
       /\ (di' # di => (pc = "s2_engine" /\ files[cur].stage = 2))
       /\ (an' # an => (pc = "s3_engine" /\ files[cur].stage = 3))
       /\ (cur # NoId /\ pc' = "idle") => files'[cur].stage = 4]_vars

\* process_file has just skipped stage 1 for a recovered File that has its
\* Transcription
C25_Witness ==
    /\ pc = "stage2" /\ call = NoCall
    /\ files[cur].status = "queued" /\ files[cur].stage = 1
    /\ tr[cur] # "none" /\ tres = tr[cur]

\* C26: in a process that stays up, with a fair worker and engine calls
\* that come back, every id in the queue becomes the current job and its
\* File reaches done or failed.
C26_EveryJobEnds ==
    \A f \in Ids :
        /\ (f \in Range(queue)) ~> (cur = f)
        /\ (f \in Range(queue)) ~> (files[f].status \in {"done", "failed"})

\* C27: when the recovery pass has run after a crash, the id of every File
\* that was accepted and is not finished (queued, transcribing, diarizing or
\* analyzing) is in the queue.
C27_QueueSurvivesCrash ==
    [][(pc = "down" /\ pc' = "idle") =>
        \A f \in Ids :
            files[f].status \in {"queued"} \cup Running => f \in Range(queue')]_vars

IsPrefix(p, q) == Len(p) <= Len(q) /\ SubSeq(q, 1, Len(p)) = p

\* C28: while the process is up the queue changes only at its two ends: an
\* enqueue puts ids behind the ones that wait, and the worker, when idle,
\* takes the one at the head and makes it its job; so jobs start in the
\* order of the enqueues and each enqueue is answered by one dequeue.
C28_FifoDequeuedOnce ==
    [][(pc # "down" /\ pc' # "down" /\ queue' # queue) =>
        \/ /\ pc = "idle" /\ queue # <<>>
           /\ queue' = Tail(queue)
           /\ cur' = Head(queue) /\ pc' = "stage1"
        \/ /\ pc' = pc /\ cur' = cur
           /\ IsPrefix(queue, queue')]_vars

\* two Files were in the queue and the worker has just taken the one that
\* was enqueued first
C28_Witness ==
    \E f, g \in Ids :
        /\ f # g /\ pc = "stage1" /\ cur = f /\ queue = <<g>>
        /\ files[g].status = "queued" /\ files[g].stage = 0
        /\ files[f].status = "failed"

ChildrenOf(t, f) == {i \in DOMAIN t : t[i].file = f}

\* C30: a _save_* helper commits once; the committed table has exactly one
\* child of the File, the new one, also when the File had a child before
\* (the old one is gone), and the children of the other Files are as they
\* were.
C30_OneChildPerFile ==
    (ret.fn \in {"_save_transcription", "_save_diarization", "_save_analysis"}) =>
        /\ Len(ret.commits) = 1
        /\ LET t == ret.commits[1]
           IN /\ \A f \in Ids : Cardinality(ChildrenOf(t, f)) <= 1
              /\ \E i \in DOMAIN t : t[i] = [file |-> arg.file, value |-> arg.result]
              /\ \A f \in Ids \ {arg.file} :
                    {t[i] : i \in ChildrenOf(t, f)}
                      = {arg.rows[i] : i \in ChildrenOf(arg.rows, f)}

\* a stage was saved again for a File that had a child with another value:
\* the table holds the new child alone
C30_Witness ==
    /\ ret.fn = "_save_diarization"
    /\ arg.rows = <<[file |-> 1, value |-> "v1"]>> /\ arg.file = 1 /\ arg.result = "v2"
    /\ ret.commits = <<(<<[file |-> 1, value |-> "v2"]>>)>>

\* the hashes of the blobs of a batch that pass validation on their own
GoodHashes(batch) == {batch[i].hash : i \in {j \in DOMAIN batch : ValidBlob(batch[j])}}

NewRows == {f \in Ids : ~Exists(f) /\ files'[f].status # "absent"}

\* C31: an upload creates File rows (each with its stored blob) and queue
\* entries only for blobs of the batch that pass validation, at most one row
\* per valid content, whatever else the batch holds; the queue only grows at
\* its tail, by ids of such Files; and the orchestrator is only ever called
\* for a File that came from a valid blob.
C31_InvalidBlobLeavesNoTrace ==
    /\ [][\A batch \in Batches : upload_files_of(batch) =>
            /\ \A f \in NewRows : files'[f].file_hash \in GoodHashes(batch)
            /\ Cardinality(NewRows) <= Cardinality(GoodHashes(batch))
            /\ \A f \in Ids \ NewRows : files'[f] = files[f]
            /\ IsPrefix(queue, queue')
            /\ \A i \in DOMAIN queue' :
                  i > Len(queue) => files'[queue'[i]].file_hash \in GoodHashes(batch)]_vars
    /\ [](\A f \in Ids : Exists(f) => \E b \in Blobs : ValidBlob(b) /\ b.hash = files[f].file_hash)
    /\ [](cur # NoId => Exists(cur))

\* a batch of a rejected blob and a recording was served on an empty Store:
\* one File, of the recording, and its id alone in the queue
C31_Witness ==
    /\ arg = UploadCall(<<BlobBad, BlobA>>)
    /\ resp = 200
    /\ \E f \in Ids :
          /\ files[f].file_hash = BlobA.hash /\ files[f].status = "queued"
          /\ \A g \in Ids \ {f} : ~Exists(g)
          /\ queue = <<f>>

StartsWithOneOf(content, ext) ==
    \E i \in DOMAIN MAGIC_SIGNATURES[ext] :
        slice(content, 0, Len(MAGIC_SIGNATURES[ext][i])) = MAGIC_SIGNATURES[ext][i]

\* C32: the magic-byte check accepts an m4a blob exactly when its bytes 4..7
\* are "ftyp", and a blob of another known extension exactly when it starts
\* with one of the extension's signatures.
C32_MagicBytes ==
    (ret.fn = "_check_magic_bytes" /\ arg.ext \in DOMAIN MAGIC_SIGNATURES) =>
        ret.result = (IF arg.ext = ".m4a"
                        THEN slice(arg.content, 4, 8) = b_ftyp
                        ELSE StartsWithOneOf(arg.content, arg.ext))

LabelsOf(q) == {q[i].label : i \in DOMAIN q}
FirstStart(q, l) ==
    CHOOSE t \in Times : /\ \E i \in DOMAIN q : q[i].label = l /\ q[i].start = t
                         /\ \A i \in DOMAIN q : q[i].label = l => t <= q[i].start
Overlap(w, t) ==
    LET lo == IF w.start > t.start THEN w.start ELSE t.start
        hi == IF w.end < t.end THEN w.end ELSE t.end
    IN IF hi > lo THEN hi - lo ELSE 0

\* C33: the label whose first turn starts earliest is the operator, the next
\* one the client, every further label unknown; each word has the speaker of
\* a segment of greatest overlap with it, among those of one with the earliest
\* start, and a word that overlaps no segment is unknown.
C33_RolesAndWordSpeakers ==
    (ret.fn = "_diarize_mono") =>
        LET q == arg.raw_segments
            L == LabelsOf(q)
            m == ret.result.speaker_map
            seg == ret.result.segments
            ops == {l \in L : m[l] = "operator"}
            cls == {l \in L : m[l] = "client"}
        IN /\ DOMAIN m = L
           /\ Cardinality(ops) = (IF L = {} THEN 0 ELSE 1)
           /\ Cardinality(cls) = (IF Cardinality(L) >= 2 THEN 1 ELSE 0)
           /\ \A l \in L \ (ops \cup cls) : m[l] = "unknown"
           /\ \A o \in ops : \A l \in L : FirstStart(q, o) <= FirstStart(q, l)
           /\ \A c \in cls : \A l \in L \ ops : FirstStart(q, c) <= FirstStart(q, l)
           /\ DOMAIN seg = DOMAIN q
           /\ \A i \in DOMAIN q : seg[i].speaker = m[q[i].label]
           /\ \A k \in DOMAIN arg.word_timestamps :
                 LET w == arg.word_timestamps[k]
                     got == ret.result.words[k].speaker
                     best == {i \in DOMAIN q : \A j \in DOMAIN q : Overlap(w, q[j]) <= Overlap(w, q[i])}
                 IN IF \A i \in DOMAIN q : Overlap(w, q[i]) = 0
                      THEN got = "unknown"
                      ELSE \E i \in best : /\ got = seg[i].speaker
                                            /\ \A j \in best : q[i].start <= q[j].start

\* a word that two segments of different speakers overlap equally went to
\* the earlier one
C33_Witness ==
    /\ ret.fn = "_diarize_mono"
    /\ arg.raw_segments = <<[start |-> 0, end |-> 2, label |-> "SPEAKER_01"],
                            [start |-> 2, end |-> 3, label |-> "SPEAKER_00"]>>
    /\ arg.word_timestamps = <<[start |-> 1, end |-> 3]>>
    /\ ret.result.words[1].speaker = "operator"
    /\ ret.result.speaker_map["SPEAKER_00"] = "client"

Terminal == {"done", "failed"}

GotTerminal(c, f) == f \in clients[c].term

\* C34: a client subscribed to a File that has reached done or failed gets a
\* frame with that status, as the snapshot or as a published frame, unless
\* its connection ends first.
C34_TerminalFrameDelivered ==
    \A c \in Clients, f \in Ids :
        (clients[c].state = "subscribed" /\ f \in clients[c].topics
            /\ files[f].status \in Terminal)
          ~> (GotTerminal(c, f) \/ f \notin clients[c].topics)

\* a client that subscribed while the File was in work has since been sent
\* the frame of its end
C34_Witness ==
    \E c \in Clients, f \in Ids :
        /\ clients[c].state = "subscribed" /\ f \in clients[c].topics
        /\ clients[c].snap.status = "diarizing"
        /\ files[f].status = "done"
        /\ clients[c].last = Frame(f, "done", 100, 4)
        /\ GotTerminal(c, f)

FramesInFlight == Range(tasks) \cup {susp[i].frame : i \in DOMAIN susp}

\* C35: the frame a step of the worker publishes carries the (status, stage,
\* progress) the same step has committed for the File before it hands the
\* frame over; only such frames enter the list of broadcast tasks, and a
\* client is only ever sent a frame of that list.
C35_FramesAreCommitted ==
    [][/\ Publishes =>
            /\ frame'.file \in Ids
            /\ Triple(frame') = Triple(files'[frame'.file])
       /\ \/ tasks' \in {tasks, Append(tasks, frame'), <<>>}
          \/ tasks # <<>> /\ tasks' = Tail(tasks)
       /\ Len(tasks') > Len(tasks) => Publishes
       /\ \A i \in DOMAIN susp' : susp'[i].frame \in FramesInFlight
       /\ \A c \in Clients :
            (clients'[c].last # clients[c].last /\ clients'[c].last # NoFrame)
                => clients'[c].last \in FramesInFlight]_vars

\* a client has been sent the frame of a failure, and the File is as the
\* frame says
C35_Witness ==
    \E c \in Clients :
        /\ clients[c].last.status = "failed"
        /\ Triple(clients[c].last) = Triple(files[clients[c].last.file])
        /\ files[clients[c].last.file].retry_count = 1

\* the attempts of a script whose reply has all required fields as numbers
Usable(script) == {i \in DOMAIN script : script[i] = GoodReply}

\* C36: analyze calls the engine at most 3 times, with the normal prompt
\* first and the strict one after; with a credential and a text it returns
\* the result of the first usable reply and stops there, or None after 3
\* calls if there was none; without a credential it returns None.
C36_AnalyzeRetries ==
    (ret.fn = "analyze") =>
        LET out == ret.out
            good == Usable(arg.script)
        IN /\ Len(out.prompts) <= 3
           /\ \A i \in DOMAIN out.prompts :
                 out.prompts[i] = (IF i = 1 THEN "SYSTEM_PROMPT" ELSE "STRICT_SYSTEM_PROMPT")
           /\ ~arg.credential => out.result = None
           /\ (arg.credential /\ arg.operator_text # " ") =>
                 IF good = {}
                   THEN out.result = None /\ Len(out.prompts) = 3
                   ELSE LET first == CHOOSE i \in good : \A j \in good : i <= j
                        IN /\ Len(out.prompts) = first
                           /\ out.result.ok
                           /\ out.result.overall = 50

\* the engine raised, then returned no JSON, then a usable reply: three
\* calls, the last two with the strict prompt, and a result
C36_Witness ==
    /\ ret.fn = "analyze"
    /\ arg.credential /\ arg.operator_text = "anna"
    /\ arg.script = <<[kind |-> "raise"], [kind |-> "invalid_json"], GoodReply>>
    /\ ret.out.result.ok
    /\ ret.out.prompts = <<"SYSTEM_PROMPT", "STRICT_SYSTEM_PROMPT", "STRICT_SYSTEM_PROMPT">>

\* C37: a File with a running status has the stage of that status
\* (transcribing 1, diarizing 2, analyzing 3) in every committed state, and
\* a File becomes queued with a stage above 0 only in the recovery pass.
C37_StatusStageCoupling ==
    /\ [](\A f \in Ids :
            files[f].status \in Running => files[f].stage = StageOf(files[f].status))
    /\ [][\A f \in Ids :
            (files'[f].status = "queued" /\ files'[f].stage > 0 /\ files'[f] # files[f])
                => (recover_interrupted /\ files[f].status \in Running)]_vars

\* the recovery pass has put back a File that was being diarized, and a
\* later File is being analyzed
C37_Witness ==
    \E f, g \in Ids :
        /\ files[f].status = "queued" /\ files[f].stage = 2
        /\ files[g].status = "analyzing" /\ files[g].stage = 3

\* C38: every id in the queue, and the id of the job the worker has in
\* hand, is the id of a committed File row.
C38_QueuedIdsHaveRows ==
    /\ \A i \in DOMAIN queue : Exists(queue[i])
    /\ cur # NoId => Exists(cur)

\* the worker is in one File while the id of another waits in the queue
C38_Witness ==
    /\ cur # NoId /\ pc = "s1_engine"
    /\ queue # <<>> /\ Head(queue) # cur
    /\ files[Head(queue)].status = "queued"

\* the worker is in process_file for a File that is done
RerunOfDone == cur # NoId /\ pc \in {"stage1", "stage2", "stage3", "finalise"}
                   /\ files[cur].status = "done"

\* C39: no step of process_file on a File that is already done calls an
\* engine or changes the File row or its Transcription, Diarization or
\* Analysis.
C39_DoneIsIdempotent ==
    [][RerunOfDone =>
          /\ files'[cur] = files[cur]
          /\ tr'[cur] = tr[cur] /\ di'[cur] = di[cur] /\ an'[cur] = an[cur]
          /\ call'.file # cur]_vars

\* process_file has gone through a done File up to its last step: the
\* checkpoints were loaded and the row is as it was
C39_Witness ==
    /\ cur # NoId /\ pc = "finalise"
    /\ files[cur] = [status |-> "done", stage |-> 4, progress |-> 100, retry_count |-> 0,
                     error_message |-> "", file_hash |-> "A"]
    /\ tres = tr[cur] /\ dres = di[cur] /\ tr[cur] # "none" /\ di[cur] # "none"

\* C40: in every state of the manager a socket is among the subscribers of
\* file f exactly when f is among the socket's own files, and the
\* subscription map holds no topic without a subscriber.
C40_MapsAgree ==
    (ret.fn = "WebSocketManager") =>
        /\ \A c \in Clients, f \in Ids :
              (c \in get_set(ret.subscriptions, f)) <=> (f \in get_set(ret.ws_files, c))
        /\ \A f \in DOMAIN ret.subscriptions : ret.subscriptions[f] # {}

\* a socket with two files has just been disconnected; one of its topics is
\* gone, the other is left to the socket that shares it
C40_Witness ==
    /\ ret.fn = "WebSocketManager"
    /\ arg = [fn |-> "disconnect", ws |-> 1]
    /\ DOMAIN ret.subscriptions = {2} /\ ret.subscriptions[2] = {2}
    /\ DOMAIN ret.ws_files = {2} /\ ret.ws_files[2] = {2}
====
